---- MODULE Spec2Model ----
(***************************************************************************)
(* The agent loop of literun (src/src/literun/runner.py): one run of       *)
(* Runner.run, arun, run_stream or arun_stream against a model             *)
(* collaborator that answers each call with a list of output items, and a  *)
(* registry of tools.  Further specifications share the module:           *)
(* AgentSpec, the construction of an Agent from a list of tools (agent.py);*)
(* ToolSpec, the methods of one Tool (tool.py, args_schema.py);            *)
(* RequestSpec, the request ChatOpenAI builds for an Agent (llm.py);       *)
(* MessageSpec, messages offered to a PromptTemplate (message.py,          *)
(* prompt.py); and, for the earlier package                                *)
(* (src/src/openai_agent/agent.py), StreamSpec, the generator Agent.stream *)
(* fed by a provider's event stream, and InvokeSpec, Agent.invoke fed by   *)
(* the model's responses.  PairSpec runs two Runner runs on one agent and  *)
(* one template; FairSpec is Spec under weak fairness of the run's steps;  *)
(* StreamingSpec is a streaming run of either package and BlockingSpec a   *)
(* run of Runner.run or of Agent.invoke.                                   *)
(*                                                                         *)
(* Texts are sequences of tokens, so that "" is <<>> and concatenation is  *)
(* \o.  A PromptMessage carries the content_type tags that prompt.py       *)
(* writes and that PromptMessage._validate_invariants distinguishes        *)
(* ("text", "tool_call", "tool_call_output").                              *)
(***************************************************************************)
EXTENDS Integers, Sequences, FiniteSets, TLC

\* ------------------------------------------------------------------ bounds
MaxIter == 2        \* the max_iterations given to Agent range over 0..MaxIter
MaxItems == 3       \* output items in the first model response
MaxTools == 3       \* tools in the list given to Agent
MaxMessages == 2    \* messages offered to one PromptTemplate
MaxEvents == 4      \* provider events in one streamed response

NoText == <<>>

\* ------------------------------------------------------------ the inputs
Modes == {"run", "arun", "run_stream", "arun_stream"}
IsAsync(m) == m \in {"arun", "arun_stream"}
IsStream(m) == m \in {"run_stream", "arun_stream"}

\* What the caller gives to the Agent constructor.
DEFAULT_MAX_TOOL_CALLS_LIMIT == 10
Agents ==
    [max_iterations : 0..MaxIter, system_prompt : {NoText, <<"sys">>},
     max_tool_calls : {1, DEFAULT_MAX_TOOL_CALLS_LIMIT}]
UserInputs == {NoText, <<"hi">>}

\* ------------------------------------------------------- PromptMessage
\* A message is a record holding the fields that were given to the
\* constructor: a field left at its default None is absent from the record.
Has(m, f) == f \in DOMAIN m

\* Mutant of validate_invariants: the content_type alone is looked at.
validate_invariants_lenient(m) ==
    m.content_type \in {"text", "tool_call", "tool_call_output"}

\* PromptMessage._validate_invariants: TRUE when construction succeeds.
validate_invariants(m) ==
    CASE m.content_type = "text" ->
            Has(m, "role") /\ Has(m, "text")
      [] m.content_type = "tool_call" ->
            /\ Has(m, "name") /\ m.name # ""
            /\ Has(m, "arguments")
            /\ Has(m, "call_id") /\ m.call_id # <<>>
      [] m.content_type = "tool_call_output" ->
            /\ Has(m, "call_id") /\ m.call_id # <<>>
            /\ Has(m, "output")
      [] OTHER -> FALSE

\* ------------------------------------------------------- PromptTemplate
\* A template is the list of its messages.
add_message(p, m) == Append(p, m)
add_system(p, text) ==
    add_message(p, [content_type |-> "text", role |-> "system", text |-> text])
add_user(p, text) ==
    add_message(p, [content_type |-> "text", role |-> "user", text |-> text])
add_assistant(p, text) ==
    add_message(p, [content_type |-> "text", role |-> "assistant", text |-> text])
\* Mutant of add_tool_call: the record is not appended.
add_tool_call_dropped(p, name, arguments, call_id) == p
add_tool_call(p, name, arguments, call_id) ==
    add_message(p, [content_type |-> "tool_call", name |-> name,
                    arguments |-> arguments, call_id |-> call_id])
\* Mutants of add_tool_output: the message is built with add_tool_call's
\* content_type; the output is not appended.
add_tool_output_as_call(p, call_id, output) ==
    add_message(p, [content_type |-> "tool_call", call_id |-> call_id,
                    output |-> output])
add_tool_output_dropped(p, call_id, output) == p
\* Mutant of add_tool_output: the output is appended twice.
add_tool_output_twice(p, call_id, output) ==
    add_message(add_message(p, [content_type |-> "tool_call_output",
                                call_id |-> call_id, output |-> output]),
                [content_type |-> "tool_call_output", call_id |-> call_id,
                 output |-> output])
add_tool_output(p, call_id, output) ==
    add_message(p, [content_type |-> "tool_call_output", call_id |-> call_id,
                    output |-> output])

\* PromptTemplate.copy: `messages` is a property without a setter
\* (prompt.py:22-25) on a pydantic model, so the assignment
\* `new.messages = list(self.messages)` raises AttributeError and no copy is
\* ever returned.
copy(p) == [raised |-> "AttributeError", value |-> <<>>]

\* ------------------------------------------------------------ ArgsSchema
\* A value is tagged with its Python type; v is its printed form.
StrV(s) == [t |-> "str", v |-> s]
IntV(s) == [t |-> "int", v |-> s]
FloatV(s) == [t |-> "float", v |-> s]
BoolV(s) == [t |-> "bool", v |-> s]
ListV == [t |-> "list", v |-> "[]"]
NoneV == [t |-> "NoneType", v |-> "None"]
NoError == ""

\* The texts Python reads as an integer and as a float, with what it reads.
Digits == {"0", "1", "2", "3"}
Decimals == {"0.0", "1.0", "2.0", "2.5"}
Trunc(d) == CASE d = "0.0" -> "0" [] d = "1.0" -> "1" [] OTHER -> "2"
Widen(i) == CASE i = "0" -> "0.0" [] i = "1" -> "1.0" [] i = "2" -> "2.0"
              [] OTHER -> "3.0"
Ok(value) == [raised |-> NoError, value |-> value]
Raise(e) == [raised |-> e, value |-> NoneV]

\* str(value), int(value), float(value), bool(value)
str_of(value) == Ok(StrV(value.v))
int_of(value) ==
    CASE value.t = "int" -> Ok(value)
      [] value.t = "str" -> IF value.v \in Digits THEN Ok(IntV(value.v))
                            ELSE Raise("ValueError")
      [] value.t = "float" -> Ok(IntV(Trunc(value.v)))
      [] value.t = "bool" -> Ok(IntV(IF value.v = "True" THEN "1" ELSE "0"))
      [] OTHER -> Raise("TypeError")
float_of(value) ==
    CASE value.t = "float" -> Ok(value)
      [] value.t = "str" -> IF value.v \in Decimals THEN Ok(FloatV(value.v))
                            ELSE IF value.v \in Digits THEN Ok(FloatV(Widen(value.v)))
                            ELSE Raise("ValueError")
      [] value.t = "int" -> Ok(FloatV(Widen(value.v)))
      [] value.t = "bool" -> Ok(FloatV(IF value.v = "True" THEN "1.0" ELSE "0.0"))
      [] OTHER -> Raise("TypeError")
Falsy == {StrV(""), IntV("0"), FloatV("0.0"), BoolV("False"), ListV}
\* Mutant of bool_of: `not value`.
bool_of_negated(value) == Ok(BoolV(IF value \in Falsy THEN "True" ELSE "False"))
bool_of(value) == Ok(BoolV(IF value \in Falsy THEN "False" ELSE "True"))
type_call(type, value) ==
    CASE type = "int" -> int_of(value)
      [] type = "float" -> float_of(value)
      [] type = "bool" -> bool_of(value)
      [] OTHER -> str_of(value)

\* Mutant of validate_and_cast: the value is returned as it came.
validate_and_cast_uncast(arg, value) ==
    IF value = NoneV THEN Raise("ValueError") ELSE Ok(value)

\* ArgsSchema.validate_and_cast: None is a missing argument; whatever
\* self.type_(value) raises becomes a ValueError.
validate_and_cast(arg, value) ==
    IF value = NoneV THEN Raise("ValueError")
    ELSE LET cast == type_call(arg.type, value)
         IN IF cast.raised # NoError THEN Raise("ValueError") ELSE cast

\* ------------------------------------------------------------------ Tool
\* raises: what the callable does when it is called.  hints: the callable's
\* annotations as get_type_hints gives them, the return annotation included.
ToolGood == [name |-> "good", func |-> TRUE, coroutine |-> FALSE, raises |-> FALSE,
             args_schema |-> <<[name |-> "x", type |-> "int"]>>,
             hints |-> [x |-> "int", return |-> "str"]]
ToolBoom == [name |-> "boom", func |-> TRUE, coroutine |-> FALSE, raises |-> TRUE,
             args_schema |-> <<[name |-> "x", type |-> "int"]>>,
             hints |-> [x |-> "int", return |-> "str"]]
ToolCoro == [name |-> "acoro", func |-> FALSE, coroutine |-> TRUE, raises |-> FALSE,
             args_schema |-> <<[name |-> "x", type |-> "int"]>>,
             hints |-> [x |-> "int", return |-> "str"]]
\* A tool given both a func and a coroutine.
ToolBoth == [ToolGood EXCEPT !.name = "both", !.coroutine = TRUE]
AgentTools == <<ToolGood, ToolBoom, ToolCoro>>

\* dict.get
Get(d, k) == IF k \in DOMAIN d THEN d[k] ELSE NoneV

\* Mutant of resolve_arguments: the model's arguments pass as they came.
resolve_arguments_raw(tool, raw_args) == Ok(raw_args)

\* Tool._resolve_arguments: with a declared schema every declared parameter,
\* cast, and nothing else (the first failing parameter raises); without one
\* the raw arguments.
resolve_arguments(tool, raw_args) ==
    LET schema == tool.args_schema
        cast == [i \in DOMAIN schema |->
                    validate_and_cast(schema[i], Get(raw_args, schema[i].name))]
        Last(n) == CHOOSE i \in DOMAIN schema :
                      /\ schema[i].name = n
                      /\ \A j \in DOMAIN schema : schema[j].name = n => j <= i
    IN IF schema = <<>> THEN Ok(raw_args)
       ELSE IF \E i \in DOMAIN cast : cast[i].raised # NoError
       THEN [raised |-> "ValueError", value |-> <<>>]
       ELSE Ok([n \in {schema[i].name : i \in DOMAIN schema} |-> cast[Last(n)].value])

\* runtime_context: None, or a dict.  ToolRuntime(**(runtime_context or {}))
\* holds the dict's entries.
NoContext == [given |-> FALSE, entries |-> [k \in {} |-> ""]]
Context(entries) == [given |-> TRUE, entries |-> entries]
ToolRuntime(runtime_context) == [t |-> "ToolRuntime", v |-> runtime_context.entries]

\* Mutant of inject_runtime: a runtime value that the model supplied is kept.
inject_runtime_keeps(tool, args, runtime_context) ==
    [n \in DOMAIN args \cup {h \in DOMAIN tool.hints : tool.hints[h] = "ToolRuntime"} |->
        IF n \in DOMAIN args THEN args[n] ELSE ToolRuntime(runtime_context)]

\* Tool._inject_runtime: the arguments, and a ToolRuntime for every name
\* annotated as ToolRuntime.
inject_runtime(tool, args, runtime_context) ==
    [n \in DOMAIN args \cup {h \in DOMAIN tool.hints : tool.hints[h] = "ToolRuntime"} |->
        IF n \in DOMAIN tool.hints /\ tool.hints[n] = "ToolRuntime"
        THEN ToolRuntime(runtime_context)
        ELSE args[n]]

\* The keyword arguments Tool.run / Tool.arun call the callable with.
final_args(tool, args, runtime_context) ==
    LET parsed == resolve_arguments(tool, args)
    IN IF parsed.raised # NoError THEN parsed
       ELSE Ok(inject_runtime(tool, parsed.value, runtime_context))

\* What the callable does with its keyword arguments: the tools here return
\* their argument x, or raise.
Call(tool, kwargs) ==
    IF tool.raises THEN Raise("Exception")
    ELSE Ok(IF "x" \in DOMAIN kwargs THEN kwargs.x ELSE StrV("done"))

\* Tool.run: the synchronous callable, on the calling thread.
tool_run(tool, args, runtime_context) ==
    IF ~tool.func THEN Raise("RuntimeError")
    ELSE LET final == final_args(tool, args, runtime_context)
         IN IF final.raised # NoError THEN Raise(final.raised)
            ELSE Call(tool, final.value)

\* Mutant of tool_arun: without a coroutine there is nothing to await.
tool_arun_coroutine_only(tool, args, runtime_context) ==
    IF ~tool.coroutine THEN Raise("RuntimeError")
    ELSE LET final == final_args(tool, args, runtime_context)
         IN IF final.raised # NoError THEN Raise(final.raised)
            ELSE Call(tool, final.value)

\* Tool.arun: the coroutine when there is one, else the func on a thread.
tool_arun(tool, args, runtime_context) ==
    LET final == final_args(tool, args, runtime_context)
    IN IF final.raised # NoError THEN Raise(final.raised)
       ELSE Call(tool, final.value)

\* Tool.convert_to_openai_tool: the parameters the model is shown.
json_type(type) ==
    CASE type = "str" -> "string" [] type = "int" -> "integer"
      [] type = "float" -> "number" [] OTHER -> "boolean"
\* Mutant of convert_to_openai_tool: the parameters are read off the
\* callable's annotations.
convert_to_openai_tool_hints(tool) ==
    [properties |-> [n \in DOMAIN tool.hints \ {"return"} |-> "string"],
     required |-> [i \in DOMAIN tool.args_schema |-> tool.args_schema[i].name]]
convert_to_openai_tool(tool) ==
    LET schema == tool.args_schema
    IN [properties |-> [n \in {schema[i].name : i \in DOMAIN schema} |->
                           json_type(schema[CHOOSE i \in DOMAIN schema :
                                               schema[i].name = n].type)],
        required |-> [i \in DOMAIN schema |-> schema[i].name]]

\* Mutant of add_tools: a later tool of the same name replaces the earlier.
RECURSIVE add_tools_overwrites(_)
add_tools_overwrites(tools) ==
    IF tools = <<>> THEN Ok([n \in {} |-> ToolGood])
    ELSE LET rest == add_tools_overwrites(SubSeq(tools, 1, Len(tools) - 1))
             tool == tools[Len(tools)]
         IN Ok([n \in DOMAIN rest.value \cup {tool.name} |->
                   IF n = tool.name THEN tool ELSE rest.value[n]])

\* Agent.add_tools: the dict from each tool's name to the tool; a name seen
\* twice raises ValueError.
RECURSIVE add_tools(_)
add_tools(tools) ==
    IF tools = <<>> THEN Ok([n \in {} |-> ToolGood])
    ELSE LET rest == add_tools(SubSeq(tools, 1, Len(tools) - 1))
             tool == tools[Len(tools)]
         IN IF rest.raised # NoError THEN rest
            ELSE IF tool.name \in DOMAIN rest.value
                 THEN [raised |-> "ValueError", value |-> rest.value]
                 ELSE Ok([n \in DOMAIN rest.value \cup {tool.name} |->
                            IF n = tool.name THEN tool ELSE rest.value[n]])

\* ---------------------------------------------------------------- Runner
\* The argument texts a model sends, and json.loads of each.
ArgsOk == "{\"x\": \"2\"}"
ArgsMissing == "{}"
ArgsBadJson == "{x"
json_loads(text) ==
    CASE text = ArgsOk -> [raised |-> NoError, value |-> [x |-> StrV("2")]]
      [] text = ArgsMissing -> [raised |-> NoError, value |-> [k \in {} |-> NoneV]]
      [] OTHER -> [raised |-> "JSONDecodeError", value |-> <<>>]

\* agent._tools: Agent.add_tools maps each tool's name to the tool.
Registered(name) == \E i \in DOMAIN AgentTools : AgentTools[i].name = name
ToolNamed(name) == AgentTools[CHOOSE i \in DOMAIN AgentTools : AgentTools[i].name = name]

\* str(result)
Str(value) == <<value.v>>
ErrorPrefix == "Error executing tool '"
ErrorText(name, e) == <<ErrorPrefix, name, "': ", e>>
NotFoundText(name) == <<"Error: Tool '", name, "' not found">>

\* Mutant of run_tool: the except branch returns str(e) alone.
run_tool_unprefixed(name, arguments, async) ==
    IF ~Registered(name) THEN NotFoundText(name)
    ELSE LET tool == ToolNamed(name)
             args == json_loads(arguments)
         IN IF args.raised # NoError THEN <<args.raised>>
            ELSE LET result == IF async THEN tool_arun(tool, args.value, NoContext)
                                        ELSE tool_run(tool, args.value, NoContext)
                 IN IF result.raised # NoError THEN <<result.raised>>
                    ELSE Str(result.value)

\* Mutant of run_tool: the lookup of an unknown name fails inside the try.
run_tool_lookup_raises(name, arguments, async) ==
    IF ~Registered(name) THEN ErrorText(name, "KeyError")
    ELSE LET tool == ToolNamed(name)
             args == json_loads(arguments)
         IN IF args.raised # NoError THEN ErrorText(name, args.raised)
            ELSE LET result == IF async THEN tool_arun(tool, args.value, NoContext)
                                        ELSE tool_run(tool, args.value, NoContext)
                 IN IF result.raised # NoError THEN ErrorText(name, result.raised)
                    ELSE Str(result.value)

\* Runner._run_tool (async = FALSE) and Runner._arun_tool (async = TRUE): an
\* unknown name yields the not-found text; everything else runs inside
\* try/except Exception.  The run is given no runtime_context (NoContext).
run_tool(name, arguments, async) ==
    IF ~Registered(name) THEN NotFoundText(name)
    ELSE LET tool == ToolNamed(name)
             args == json_loads(arguments)
         IN IF args.raised # NoError THEN ErrorText(name, args.raised)
            ELSE LET result == IF async THEN tool_arun(tool, args.value, NoContext)
                                        ELSE tool_run(tool, args.value, NoContext)
                 IN IF result.raised # NoError THEN ErrorText(name, result.raised)
                    ELSE Str(result.value)

\* --------------------------------------------------- the model's responses
OutputText(t) == [type |-> "output_text", text |-> t]
Refusal == [type |-> "refusal", text |-> <<"no">>]
MessageItem(content) == [type |-> "message", content |-> content]
FunctionCall(name, arguments) ==
    [type |-> "function_call", id |-> <<>>, call_id |-> <<>>, name |-> name,
     arguments |-> arguments]

\* The shapes of the items of the first response, and the later responses.
Reasoning == [type |-> "reasoning"]
FirstShapes ==
    { Reasoning, MessageItem(<<OutputText(<<"a">>)>>), MessageItem(<<Refusal>>),
      FunctionCall("good", ArgsOk), FunctionCall("boom", ArgsOk) }
LaterResponses ==
    { <<>>, <<MessageItem(<<OutputText(<<"b">>)>>)>>,
      <<FunctionCall("good", ArgsBadJson)>>, <<FunctionCall("good", ArgsMissing)>>,
      <<FunctionCall("ghost", ArgsOk)>>, <<FunctionCall("acoro", ArgsOk)>>,
      <<FunctionCall("boom", ArgsOk)>>,
      <<FunctionCall("good", ArgsBadJson), FunctionCall("good", ArgsMissing)>> }
SeqsUpTo(S, n) == UNION { [1..k -> S] : k \in 0..n }

\* The provider gives every item of a response its own id and every function
\* call its own call_id.
Stamp(shapes, turn) ==
    [i \in DOMAIN shapes |->
        IF shapes[i].type = "function_call"
        THEN [shapes[i] EXCEPT !.id = <<"fc", turn, i>>, !.call_id = <<"call", turn, i>>]
        ELSE shapes[i]]
Responses(turn) ==
    { Stamp(r, turn) : r \in IF turn = 1
                             THEN SeqsUpTo(FirstShapes, MaxItems)
                                  \cup {<<FunctionCall("ghost", ArgsOk)>>}
                             ELSE LaterResponses }

\* The caller's template: none, or one holding an earlier exchange.
NoTemplate == [given |-> FALSE, messages |-> <<>>]
Templates ==
    { NoTemplate,
      [given |-> TRUE,
       messages |-> add_assistant(add_user(<<>>, <<"old">>), <<"older">>)] }

\* ------------------------------------------------------------- the state
VARIABLES
    mode,               \* which entry point runs
    agent,              \* the Agent's max_iterations, system_prompt, max_tool_calls
    user_input,
    prompt_template,    \* the caller's template
    pc,                 \* "new", "invalid", "start", "loop", "add_tool_call",
                        \* "run_tool", "add_tool_output", "returned", "raised"
    prompt,             \* the run's conversation
    base,               \* its length when _build_prompt returned
    iteration,
    response,           \* the output items of the last model response
    tool_calls,         \* the values of the tool_calls dict, in dict order
    tc,                 \* position of the loop over tool_calls.values()
    final_output_text,
    tool_output,
    all_items,          \* the RunItems collected for the RunResult
    events,             \* what a streaming run has yielded
    result,             \* the RunResult returned
    error,              \* the exception raised to the caller
    model_calls,        \* calls of agent.llm.chat / achat
    tool_runs,          \* calls of _run_tool / _arun_tool
    twin                \* the same run through the entry point of the other
                        \* scheduling (run for arun, run_stream for
                        \* arun_stream, and back), given the same responses:
                        \* its prompt, tool_output, all_items, events, result
VARIABLES
    mirror              \* the conversation of the same run through the entry
                        \* point of the other delivery (run_stream for run,
                        \* arun_stream for arun, and back), given the same
                        \* responses

\* The construction of an Agent from a list of tools.
VARIABLES
    tools,              \* Agent.tools as given
    agent_pc,           \* "new", "constructed", "invalid"
    registry            \* Agent._tools

\* The calls of one Tool's methods.
VARIABLES
    tool,
    raw_args,           \* the argument object the model sent
    tool_pc,            \* "idle", "resolved", "resolved_again", "ran",
                        \* "ran_again", "awaited", "converted"
    runtime_context,    \* of the last call of Tool.run
    earlier_context,    \* of the call of Tool.run before it
    resolved,           \* what _resolve_arguments returned or raised
    resolved_again,     \* what it returned for what it had returned
    kwargs,             \* what the callable was called with, or the raise
    execution,          \* which callable Tool.arun ran, and on which thread
    openai_tool         \* what convert_to_openai_tool returned

\* One run of openai_agent's Agent.stream (src/src/openai_agent/agent.py).
VARIABLES
    stream_input,       \* user_input, max_iterations, include_internal_events
    stream_pc,          \* "start", "chat", "events", "done", "raised"
    stream_iteration,   \* passes of `for _ in range(self.max_iterations)` begun
    stream_tool_calls,  \* the tool_calls dict of the turn, in dict order
    tool_called,
    provided,           \* the provider events consumed, each with its turn
    yielded,            \* the StreamEvents given to the consumer
    stream_prompt,      \* prompt_messages
    stream_error,       \* the exception raised to the consumer
    executed            \* calls of _execute_tool: call id, name, argument text, turn

\* The model request of an Agent and the answer to it.
VARIABLES
    req_agent,          \* the Agent's tools, tool_choice, parallel_tool_calls
    req_llm,            \* the ChatOpenAI's bound _tools
    req_mode,           \* the entry point
    req_pc,             \* "ready", "asked", "returned", "called"
    request,            \* the params given to responses.create
    req_result,         \* the RunResult returned
    req_call,           \* the tool call the model answered with
    req_tool_output     \* what _run_tool returned for it

\* A PromptTemplate to which messages are offered.
VARIABLES
    msg_prompt,         \* the template's messages
    msg_offered,        \* how many messages were offered
    msg_attempt,        \* the fields of the last message offered
    msg_error           \* what the last offer raised

\* One call of openai_agent's Agent.invoke (src/src/openai_agent/agent.py).
VARIABLES
    invoke_input,       \* user_input, max_iterations
    invoke_pc,          \* "start", "chat", "items", "done", "raised"
    invoke_iteration,   \* passes of `for _ in range(self.max_iterations)` begun
    invoke_output,      \* what is left of response.output in the pass
    invoke_tool_called, \* tool_called
    invoke_final,       \* final_output: None or a text
    invoke_prompt,      \* prompt_messages
    invoke_result,      \* the text returned to the caller
    invoke_error        \* the exception raised to the caller

\* Two runs of Runner.arun in flight on one agent and one caller's template.
VARIABLES
    pair_agent,         \* the Agent both runs are given
    pair_template,      \* the caller's template both runs are given
    pair_input,         \* each run's user_input
    pair_pc,            \* each run's place: "start", "loop", "tool",
                        \* "returned", "raised"
    pair_prompt,        \* each run's conversation
    pair_iteration,     \* each run's iteration
    pair_call,          \* the tool call each run is about to execute
    pair_sent,          \* the conversations each run sent to the model
    pair_error          \* what each run raised

inputs == <<mode, agent, user_input, prompt_template>>
runvars == <<mode, agent, user_input, prompt_template, pc, prompt, base, iteration,
             response, tool_calls, tc, final_output_text, tool_output, all_items,
             events, result, error, model_calls, tool_runs, twin, mirror>>
agentvars == <<tools, agent_pc, registry>>
toolvars == <<tool, raw_args, tool_pc, runtime_context, earlier_context, resolved,
              resolved_again, kwargs, execution, openai_tool>>
streamvars == <<stream_input, stream_pc, stream_iteration, stream_tool_calls,
                tool_called, provided, yielded, stream_prompt, stream_error, executed>>
requestvars == <<req_agent, req_llm, req_mode, req_pc, request, req_result,
                 req_call, req_tool_output>>
messagevars == <<msg_prompt, msg_offered, msg_attempt, msg_error>>
invokevars == <<invoke_input, invoke_pc, invoke_iteration, invoke_output,
                invoke_tool_called, invoke_final, invoke_prompt, invoke_result,
                invoke_error>>
pairvars == <<pair_agent, pair_template, pair_input, pair_pc, pair_prompt,
              pair_iteration, pair_call, pair_sent, pair_error>>
othervars == <<pairvars>>
restvars == <<requestvars, messagevars, invokevars, othervars>>
vars == <<runvars, agentvars, toolvars, streamvars, restvars>>

\* Nothing is pending outside the part of the program a specification is
\* about.
NoRegistry == Ok([n \in {} |-> ToolGood])
AgentIdle == tools = <<>> /\ agent_pc = "new" /\ registry = NoRegistry
NoArgs == [k \in {} |-> NoneV]
NoOpenAITool == [properties |-> [n \in {} |-> ""], required |-> <<>>]
NoExecution == [callable |-> "none", thread |-> "none"]
ToolIdle ==
    /\ tool = ToolGood /\ raw_args = NoArgs /\ tool_pc = "idle"
    /\ runtime_context = NoContext /\ earlier_context = NoContext
    /\ resolved = Ok(NoArgs) /\ resolved_again = Ok(NoArgs) /\ kwargs = Ok(NoArgs)
    /\ execution = NoExecution
    /\ openai_tool = NoOpenAITool
StreamIdle ==
    /\ stream_pc = "start"
    /\ stream_iteration = 0
    /\ stream_tool_calls = <<>>
    /\ tool_called = FALSE
    /\ provided = <<>>
    /\ yielded = <<>>
    /\ stream_prompt = <<>>
    /\ stream_error = NoError
    /\ executed = <<>>
NoStream ==
    /\ stream_input = [user_input |-> NoText, max_iterations |-> 1,
                        include_internal_events |-> FALSE]
    /\ StreamIdle

NoResult == [returned |-> FALSE, new_items |-> <<>>, final_output |-> NoText]
\* `tools: list[Tool] | None`
NoTools == [given |-> FALSE, value |-> <<>>]
ToolList(list) == [given |-> TRUE, value |-> list]
\* No tool call.
NoCall == [call_id |-> <<>>, name |-> "", arguments |-> ""]
NoRequest ==
    /\ req_agent = [tools |-> NoTools, tool_choice |-> "auto",
                    parallel_tool_calls |-> TRUE]
    /\ req_llm = [tools |-> NoTools]
    /\ req_mode = "run"
    /\ req_pc = "ready"
    /\ request = [stream |-> FALSE]
    /\ req_result = NoResult
    /\ req_call = NoCall
    /\ req_tool_output = NoText
NoMessage ==
    /\ msg_prompt = <<>>
    /\ msg_offered = 0
    /\ msg_attempt = [content_type |-> "text"]
    /\ msg_error = NoError
\* `final_output: Optional[str] = None`
NoFinal == [given |-> FALSE, value |-> NoText]
InvokeIdle ==
    /\ invoke_pc = "start"
    /\ invoke_iteration = 0
    /\ invoke_output = <<>>
    /\ invoke_tool_called = FALSE
    /\ invoke_final = NoFinal
    /\ invoke_prompt = <<>>
    /\ invoke_result = [returned |-> FALSE, value |-> NoText]
    /\ invoke_error = NoError
NoInvoke ==
    /\ invoke_input = [user_input |-> NoText, max_iterations |-> 1]
    /\ InvokeIdle
Runs == {1, 2}
PairIdle ==
    /\ pair_pc = [r \in Runs |-> "start"]
    /\ pair_prompt = [r \in Runs |-> <<>>]
    /\ pair_iteration = [r \in Runs |-> 0]
    /\ pair_call = [r \in Runs |-> NoCall]
    /\ pair_sent = [r \in Runs |-> <<>>]
    /\ pair_error = [r \in Runs |-> NoError]
NoPair ==
    /\ pair_agent = [max_iterations |-> 1, system_prompt |-> NoText,
                     max_tool_calls |-> DEFAULT_MAX_TOOL_CALLS_LIMIT]
    /\ pair_template = NoTemplate
    /\ pair_input = [r \in Runs |-> NoText]
    /\ PairIdle
OtherIdle == NoPair
RestIdle == NoRequest /\ NoMessage /\ NoInvoke /\ OtherIdle

RunnerIdle ==
    /\ pc = "new"
    /\ prompt = <<>>
    /\ base = 0
    /\ iteration = 0
    /\ response = <<>>
    /\ tool_calls = <<>>
    /\ tc = 0
    /\ final_output_text = NoText
    /\ tool_output = NoText
    /\ all_items = <<>>
    /\ events = <<>>
    /\ result = NoResult
    /\ error = NoError
    /\ model_calls = 0
    /\ tool_runs = 0
    /\ twin = [prompt |-> <<>>, tool_output |-> NoText, all_items |-> <<>>,
               events |-> <<>>, result |-> NoResult]
    /\ mirror = <<>>
NoRun ==
    /\ mode = "run"
    /\ agent = [max_iterations |-> 1, system_prompt |-> NoText,
                max_tool_calls |-> DEFAULT_MAX_TOOL_CALLS_LIMIT]
    /\ user_input = NoText
    /\ prompt_template = NoTemplate
    /\ RunnerIdle

Init ==
    /\ AgentIdle /\ ToolIdle /\ NoStream /\ RestIdle
    /\ mode \in Modes
    /\ agent \in Agents
    /\ user_input \in UserInputs
    /\ prompt_template \in Templates
    /\ RunnerIdle

\* Mutant of validate_config: every bound is accepted.
validate_config_accepts(a) == NoError

\* Agent._validate_config: the exception construction raises, if any.
validate_config(a) == IF a.max_iterations < 1 THEN "ValueError" ELSE NoError

\* Agent(...): the validators run when the Agent is constructed; a run can
\* start on a constructed Agent only.
Construct ==
    /\ UNCHANGED <<agentvars, toolvars, streamvars, restvars>>
    /\ pc = "new"
    /\ IF validate_config(agent) # NoError
       THEN /\ pc' = "invalid"
            /\ error' = validate_config(agent)
       ELSE /\ pc' = "start"
            /\ UNCHANGED error
    /\ UNCHANGED <<inputs, prompt, base, iteration, response, tool_calls, tc,
                   final_output_text, tool_output, all_items, events, result,
                   model_calls, tool_runs, twin, mirror>>

\* Mutant of is_empty: the check is missing.
is_empty_never(text) == FALSE

\* `if not user_input`
is_empty(text) == text = NoText

\* Runner._build_prompt
build_prompt(a, text, template) ==
    IF template.given
    THEN LET c == copy(template.messages)
         IN IF c.raised # NoError THEN c
            ELSE [raised |-> NoError, value |-> add_user(c.value, text)]
    ELSE [raised |-> NoError,
          value |-> add_user(IF a.system_prompt # NoText
                             THEN add_system(<<>>, a.system_prompt)
                             ELSE <<>>, text)]

\* The entry of run / arun / run_stream / arun_stream, up to the loop.
Start ==
    /\ UNCHANGED <<agentvars, toolvars, streamvars, restvars>>
    /\ pc = "start"
    /\ IF is_empty(user_input)
       THEN /\ pc' = "raised"
            /\ error' = "ValueError"
            /\ UNCHANGED <<prompt, base, twin, mirror>>
       ELSE LET b == build_prompt(agent, user_input, prompt_template)
            IN IF b.raised # NoError
               THEN /\ pc' = "raised"
                    /\ error' = b.raised
                    /\ UNCHANGED <<prompt, base, twin, mirror>>
               ELSE /\ pc' = "loop"
                    /\ prompt' = b.value
                    /\ mirror' = b.value
                    /\ base' = Len(b.value)
                    /\ twin' = [twin EXCEPT !.prompt = b.value]
                    /\ UNCHANGED error
    /\ UNCHANGED <<inputs, iteration, response, tool_calls, tc, final_output_text,
                   tool_output, all_items, events, result, model_calls, tool_runs>>

\* Mutant of DictPut: every value goes under one key.
DictPut_one_key(d, key, value) == <<[key |-> <<>>, value |-> value]>>

\* `tool_calls[key] = value` on an insertion-ordered dict: a present key keeps
\* its place and takes the new value, a new key goes last.
DictPut(d, key, value) ==
    IF \E i \in DOMAIN d : d[i].key = key
    THEN [i \in DOMAIN d |-> IF d[i].key = key THEN [key |-> key, value |-> value]
                                               ELSE d[i]]
    ELSE Append(d, [key |-> key, value |-> value])
\* Mutant of Values: the last call of the dict is left out.
Values_but_last(d) == [i \in 1..(Len(d) - 1) |-> d[i].value]
\* Mutant of Values: the calls are taken last first.
Values_reversed(d) == [i \in DOMAIN d |-> d[Len(d) + 1 - i].value]
Values(d) == [i \in DOMAIN d |-> d[i].value]
ToolCallOf(item) ==
    [call_id |-> item.call_id, name |-> item.name, arguments |-> item.arguments]

\* "".join(c.text for c in item.content if c.type == "output_text")
RECURSIVE JoinOutputText(_)
JoinOutputText(content) ==
    IF content = <<>> THEN NoText
    ELSE (IF Head(content).type = "output_text" THEN Head(content).text ELSE NoText)
         \o JoinOutputText(Tail(content))

\* One pass of `for item in response.output` in run / arun: a message item
\* sets final_output_text, a function call enters the dict.
RunItem(type, call_id, content) ==
    [type |-> type, call_id |-> call_id, content |-> content]
ScanItem(acc, item) ==
    CASE item.type = "reasoning" ->
            [acc EXCEPT !.items = Append(@, RunItem("reasoning_item", <<>>, NoText))]
      [] item.type = "function_call" ->
            [acc EXCEPT !.tool_calls = DictPut(@, item.id, ToolCallOf(item)),
                        !.items = Append(@, RunItem("tool_call_item", item.call_id,
                                                    NoText))]
      [] item.type = "message" ->
            [acc EXCEPT !.text = JoinOutputText(item.content),
                        !.items = Append(@, RunItem("message_output_item", <<>>,
                                                    JoinOutputText(item.content)))]
      [] OTHER -> acc

\* One pass of `for event in response_stream` in run_stream / arun_stream:
\* only response.output_item.done changes the run's state, and a message
\* item there extends final_output_text.
ScanEvent(acc, event) ==
    IF event.type # "response.output_item.done" THEN acc
    ELSE CASE event.item.type = "message" ->
                 [acc EXCEPT !.text = @ \o JoinOutputText(event.item.content)]
           [] event.item.type = "function_call" ->
                 [acc EXCEPT !.tool_calls =
                                 DictPut(@, event.item.id, ToolCallOf(event.item))]
           [] OTHER -> acc

RECURSIVE Fold(_, _, _)
Fold(stream, acc, xs) ==
    IF xs = <<>> THEN acc
    ELSE Fold(stream, IF stream THEN ScanEvent(acc, Head(xs)) ELSE ScanItem(acc, Head(xs)),
              Tail(xs))

\* The events the provider streams for a response.
NoItem == [type |-> "none"]
ProviderEvent(type, item) == [type |-> type, item |-> item]
\* Mutant of ProviderEvents: the loop over the stream is left before its
\* last event.
ProviderEvents_cut(r) ==
    <<ProviderEvent("response.created", NoItem)>>
    \o [i \in DOMAIN r |-> ProviderEvent("response.output_item.done", r[i])]
ProviderEvents(r) ==
    <<ProviderEvent("response.created", NoItem)>>
    \o [i \in DOMAIN r |-> ProviderEvent("response.output_item.done", r[i])]
    \o <<ProviderEvent("response.completed", NoItem)>>

\* What the turn leaves in tool_calls and final_output_text.
Inspect(stream, r) ==
    Fold(stream, [tool_calls |-> <<>>, text |-> NoText, items |-> <<>>],
         IF stream THEN ProviderEvents(r) ELSE r)

\* Mutant of loop_continues: the loop has no bound.
loop_continues_unbounded(i, a) == TRUE

\* `while iteration < agent.max_iterations`
loop_continues(i, a) == i < a.max_iterations

\* Mutant of no_tool_calls: the condition is inverted.
no_tool_calls_inverted(calls) == calls # <<>>

\* `if not tool_calls: return`
no_tool_calls(calls) == calls = <<>>

\* `if final_output_text: prompt.add_assistant(final_output_text)`
append_assistant(p, text) == IF text # NoText THEN add_assistant(p, text) ELSE p

\* The events a streaming run yields to its consumer.
Yielded(type, call_id, status, output) ==
    [type |-> type, call_id |-> call_id, status |-> status, output |-> output]
\* The event yielded before the tool runs:
\* ResponseFunctionCallOutputItemAddedEvent(item=...(output="",
\* status="in_progress")).
output_item_added(call_id) ==
    Yielded("response.function_call_output_item.added", call_id, "in_progress", NoText)
\* Mutant of output_item_done: the event repeats the opening one.
output_item_done_opening(call_id, output) ==
    Yielded("response.function_call_output_item.done", call_id, "in_progress", NoText)
\* The event yielded after the tool has run:
\* ResponseFunctionCallOutputItemDoneEvent(item=...(output=tool_output,
\* status="completed")).
output_item_done(call_id, output) ==
    Yielded("response.function_call_output_item.done", call_id, "completed", output)
YieldProvider(es) ==
    [i \in DOMAIN es |-> Yielded(es[i].type, <<>>, "", NoText)]

\* One pass of the loop body down to the tool loop: the model call, the
\* inspection of its response, the return when there is no tool call, the
\* assistant text.
ModelCall ==
    /\ UNCHANGED <<agentvars, toolvars, streamvars, restvars>>
    /\ pc = "loop"
    /\ loop_continues(iteration, agent)
    /\ \E r \in Responses(model_calls + 1) :
          LET seen == Inspect(IsStream(mode), r)
              calls == Values(seen.tool_calls)
          IN /\ response' = r
             /\ model_calls' = model_calls + 1
             /\ tool_calls' = calls
             /\ final_output_text' = seen.text
             /\ all_items' = all_items \o seen.items
             /\ events' = IF IsStream(mode)
                          THEN events \o YieldProvider(ProviderEvents(r))
                          ELSE events
             /\ IF no_tool_calls(calls)
                THEN /\ pc' = "returned"
                     /\ result' = [returned |-> TRUE,
                                   new_items |-> all_items \o seen.items,
                                   final_output |-> seen.text]
                     /\ twin' = [twin EXCEPT
                            !.all_items = @ \o seen.items,
                            !.events = IF IsStream(mode)
                                       THEN @ \o YieldProvider(ProviderEvents(r))
                                       ELSE @,
                            !.result = [returned |-> TRUE,
                                        new_items |-> twin.all_items \o seen.items,
                                        final_output |-> seen.text]]
                     /\ UNCHANGED <<prompt, tc, mirror>>
                ELSE /\ pc' = "add_tool_call"
                     /\ prompt' = append_assistant(prompt, seen.text)
                     /\ mirror' = append_assistant(
                                      mirror, Inspect(~IsStream(mode), r).text)
                     /\ twin' = [twin EXCEPT
                            !.all_items = @ \o seen.items,
                            !.events = IF IsStream(mode)
                                       THEN @ \o YieldProvider(ProviderEvents(r))
                                       ELSE @,
                            !.prompt = append_assistant(@, seen.text)]
                     /\ tc' = 1
                     /\ UNCHANGED result
    /\ UNCHANGED <<inputs, base, iteration, tool_output, error, tool_runs>>

\* The loop condition fails: `raise RuntimeError("Agent exceeded max iterations")`
BudgetExceeded ==
    /\ UNCHANGED <<agentvars, toolvars, streamvars, restvars>>
    /\ pc = "loop"
    /\ ~loop_continues(iteration, agent)
    /\ pc' = "raised"
    /\ error' = "RuntimeError: exceeded max iterations"
    /\ UNCHANGED <<inputs, prompt, base, iteration, response, tool_calls, tc,
                   final_output_text, tool_output, all_items, events, result,
                   model_calls, tool_runs, twin, mirror>>

\* prompt.add_tool_call, and in a streaming run the yield of the
\* function_call_output_item.added event.
AddToolCall ==
    /\ UNCHANGED <<agentvars, toolvars, streamvars, restvars>>
    /\ pc = "add_tool_call"
    /\ LET call == tool_calls[tc]
       IN /\ prompt' = add_tool_call(prompt, call.name, call.arguments, call.call_id)
          /\ mirror' = add_tool_call(mirror, call.name, call.arguments, call.call_id)
          /\ events' = IF IsStream(mode)
                       THEN Append(events, output_item_added(call.call_id))
                       ELSE events
          /\ twin' = [twin EXCEPT
                 !.prompt = add_tool_call(@, call.name, call.arguments, call.call_id),
                 !.events = IF IsStream(mode)
                            THEN Append(@, output_item_added(call.call_id))
                            ELSE @]
    /\ pc' = "run_tool"
    /\ UNCHANGED <<inputs, base, iteration, response, tool_calls, tc,
                   final_output_text, tool_output, all_items, result, error,
                   model_calls, tool_runs>>

\* cls._run_tool / await cls._arun_tool
RunTool ==
    /\ UNCHANGED <<agentvars, toolvars, streamvars, restvars>>
    /\ pc = "run_tool"
    /\ LET call == tool_calls[tc]
       IN /\ tool_output' = run_tool(call.name, call.arguments, IsAsync(mode))
          /\ twin' = [twin EXCEPT !.tool_output =
                         run_tool(call.name, call.arguments, ~IsAsync(mode))]
    /\ tool_runs' = tool_runs + 1
    /\ pc' = "add_tool_output"
    /\ UNCHANGED <<inputs, prompt, base, iteration, response, tool_calls, tc,
                   final_output_text, all_items, events, result, error, model_calls,
                   mirror>>

\* prompt.add_tool_output, in a streaming run the yield of the
\* function_call_output_item.done event, and the step to the next tool call
\* or, after the last one, `iteration += 1`.
AddToolOutput ==
    /\ UNCHANGED <<agentvars, toolvars, streamvars, restvars>>
    /\ pc = "add_tool_output"
    /\ LET call == tool_calls[tc]
       IN /\ prompt' = add_tool_output(prompt, call.call_id, tool_output)
          /\ mirror' = add_tool_output(mirror, call.call_id, tool_output)
          /\ events' = IF IsStream(mode)
                       THEN Append(events, output_item_done(call.call_id, tool_output))
                       ELSE events
          /\ all_items' = IF IsStream(mode) THEN all_items
                          ELSE Append(all_items,
                                   RunItem("tool_call_output_item", call.call_id,
                                           tool_output))
          /\ twin' = [twin EXCEPT
                 !.prompt = add_tool_output(@, call.call_id, twin.tool_output),
                 !.events = IF IsStream(mode)
                            THEN Append(@, output_item_done(call.call_id,
                                                            twin.tool_output))
                            ELSE @,
                 !.all_items = IF IsStream(mode) THEN @
                               ELSE Append(@, RunItem("tool_call_output_item",
                                                      call.call_id,
                                                      twin.tool_output))]
    /\ IF tc < Len(tool_calls)
       THEN /\ tc' = tc + 1
            /\ pc' = "add_tool_call"
            /\ UNCHANGED iteration
       ELSE /\ tc' = 0
            /\ pc' = "loop"
            /\ iteration' = iteration + 1
    /\ UNCHANGED <<inputs, base, response, tool_calls, final_output_text,
                   tool_output, result, error, model_calls, tool_runs>>

\* --------------------------------------------------- Agent construction
ToolTwin == [ToolBoom EXCEPT !.name = "good"]
ToolLists == SeqsUpTo({ToolGood, ToolTwin, ToolBoom, ToolCoro}, MaxTools)

\* Agent._initialize_tools: `self._tools = self.add_tools(self.tools)`; a
\* raise leaves no Agent.
InitializeTools ==
    /\ agent_pc = "new"
    /\ registry' = add_tools(tools)
    /\ agent_pc' = IF add_tools(tools).raised # NoError THEN "invalid" ELSE "constructed"
    /\ UNCHANGED <<tools, runvars, toolvars, streamvars, restvars>>

AgentInit == NoRun /\ ToolIdle /\ NoStream /\ RestIdle /\ tools \in ToolLists /\ agent_pc = "new"
                  /\ registry = NoRegistry
AgentNext == InitializeTools
AgentSpec == AgentInit /\ [][AgentNext]_vars

\* ------------------------------------------------------- one Tool's methods
Types == {"str", "int", "float", "bool"}
ParamNames == {"x", "y"}
\* The schemas: up to one entry for each parameter name.
Schemas ==
    { sch \in SeqsUpTo([name : ParamNames, type : Types], Cardinality(ParamNames)) :
         \A i, j \in DOMAIN sch : sch[i].name = sch[j].name => i = j }
\* A tool whose callable takes the schema's parameters and, with_runtime, a
\* parameter ctx annotated as ToolRuntime.
MakeTool(schema, with_runtime) ==
    [name |-> "t", func |-> TRUE, coroutine |-> FALSE, raises |-> FALSE,
     args_schema |-> schema,
     hints |-> [n \in {schema[i].name : i \in DOMAIN schema}
                       \cup (IF with_runtime THEN {"ctx"} ELSE {}) \cup {"return"} |->
                  CASE n = "ctx" -> "ToolRuntime"
                    [] n = "return" -> "str"
                    [] OTHER -> schema[CHOOSE i \in DOMAIN schema : schema[i].name = n].type]]
ToolsUnderTest == { MakeTool(sch, rt) : sch \in Schemas, rt \in BOOLEAN }

\* The argument objects of the model: any of the keys, declared or not.
RawValues(key) ==
    CASE key = "x" -> {StrV("2"), StrV("abc"), IntV("2"), FloatV("2.5"), BoolV("True"),
                       ListV, NoneV}
      [] key = "y" -> {StrV("2.5"), StrV(""), NoneV}
      [] OTHER -> {StrV("2")}
RawKeys == {"x", "y", "z", "ctx"}
RawArgs == UNION { { f \in [K -> UNION {RawValues(k) : k \in K}] :
                       \A k \in K : f[k] \in RawValues(k) } : K \in SUBSET RawKeys }
Contexts == { NoContext, Context([user |-> "u1"]),
              Context([user |-> "u2", session |-> "s"]) }

\* tool._resolve_arguments(raw_args)
Resolve ==
    /\ tool_pc = "idle"
    /\ resolved' = resolve_arguments(tool, raw_args)
    /\ tool_pc' = "resolved"
    /\ UNCHANGED <<tool, raw_args, runtime_context, earlier_context, resolved_again,
                   kwargs, execution, openai_tool, runvars, agentvars, streamvars,
                   restvars>>

\* tool._resolve_arguments of what it returned.
ResolveAgain ==
    /\ tool_pc = "resolved"
    /\ resolved.raised = NoError
    /\ resolved_again' = resolve_arguments(tool, resolved.value)
    /\ tool_pc' = "resolved_again"
    /\ UNCHANGED <<tool, raw_args, runtime_context, earlier_context, resolved,
                   kwargs, execution, openai_tool, runvars, agentvars, streamvars,
                   restvars>>

\* tool.run(raw_args, runtime_context), a first and a second time.
ToolRun ==
    /\ tool_pc \in {"idle", "ran"}
    /\ \E c \in Contexts :
          /\ runtime_context' = c
          /\ kwargs' = IF ~tool.func THEN Raise("RuntimeError")
                        ELSE final_args(tool, raw_args, c)
    /\ earlier_context' = runtime_context
    /\ tool_pc' = IF tool_pc = "idle" THEN "ran" ELSE "ran_again"
    /\ UNCHANGED <<tool, raw_args, resolved, resolved_again, execution, openai_tool,
                   runvars, agentvars, streamvars, restvars>>

\* Mutant of arun_execution: the func runs where it is awaited.
arun_execution_inline(t, args, context) ==
    IF final_args(t, args, context).raised # NoError THEN NoExecution
    ELSE IF t.coroutine THEN [callable |-> "coroutine", thread |-> "loop"]
    ELSE [callable |-> "func", thread |-> "loop"]

\* Tool.arun, after the arguments are resolved on the event-loop thread:
\* `if self.coroutine: return await self.coroutine(**final_args)`, else
\* `await asyncio.to_thread(self.func, **final_args)`.
arun_execution(t, args, context) ==
    IF final_args(t, args, context).raised # NoError THEN NoExecution
    ELSE IF t.coroutine THEN [callable |-> "coroutine", thread |-> "loop"]
    ELSE [callable |-> "func", thread |-> "worker"]

\* await tool.arun(raw_args, runtime_context)
ToolArun ==
    /\ tool_pc = "idle"
    /\ \E c \in Contexts :
          /\ runtime_context' = c
          /\ kwargs' = final_args(tool, raw_args, c)
          /\ execution' = arun_execution(tool, raw_args, c)
    /\ tool_pc' = "awaited"
    /\ UNCHANGED <<tool, raw_args, earlier_context, resolved, resolved_again,
                   openai_tool, runvars, agentvars, streamvars, restvars>>

\* tool.convert_to_openai_tool()
Convert ==
    /\ tool_pc = "idle"
    /\ openai_tool' = convert_to_openai_tool(tool)
    /\ tool_pc' = "converted"
    /\ UNCHANGED <<tool, raw_args, runtime_context, earlier_context, resolved,
                   resolved_again, kwargs, execution, runvars, agentvars, streamvars,
                   restvars>>

ToolInit ==
    /\ NoRun /\ AgentIdle /\ NoStream /\ RestIdle
    /\ tool \in ToolsUnderTest \cup {ToolCoro, ToolBoth} /\ raw_args \in RawArgs /\ tool_pc = "idle"
    /\ runtime_context = NoContext /\ earlier_context = NoContext
    /\ resolved = Ok(NoArgs) /\ resolved_again = Ok(NoArgs) /\ kwargs = Ok(NoArgs)
    /\ execution = NoExecution
    /\ openai_tool = NoOpenAITool
ToolNext == Resolve \/ ResolveAgain \/ ToolRun \/ ToolArun \/ Convert
ToolSpec == ToolInit /\ [][ToolNext]_vars

\* --------------------------------------------- openai_agent Agent.stream
StreamInputs ==
    [user_input : UserInputs, max_iterations : {1, 2},
     include_internal_events : BOOLEAN]

\* A provider event: its type, the item or item id it is about, and its
\* sequence_number, here its place in the response.
RawEvent(type, item_type, item_id, call_id) ==
    [type |-> type, item_type |-> item_type, item_id |-> item_id, call_id |-> call_id,
     name |-> IF item_type = "function_call" THEN "good" ELSE "",
     payload |-> IF type = "response.function_call_arguments.delta"
                    \/ type = "response.function_call_arguments.done"
                 THEN ArgsOk ELSE ""]
Terminal == {"response.incomplete", "response.failed", "error"}
\* What the provider may send: a function call i1, a message m1, argument
\* events for i1 and for an item i9 that was never announced, and the ends of
\* a response.
FirstTurnEvents ==
    { RawEvent("response.output_item.added", "function_call", "i1", "c1"),
      RawEvent("response.output_item.added", "message", "m1", ""),
      RawEvent("response.function_call_arguments.delta", "", "i1", ""),
      RawEvent("response.function_call_arguments.delta", "", "i9", ""),
      RawEvent("response.function_call_arguments.done", "", "i1", ""),
      RawEvent("response.function_call_arguments.done", "", "i9", ""),
      RawEvent("response.completed", "", "", "") }
    \cup { RawEvent(t, "", "", "") : t \in Terminal }
LaterTurnEvents ==
    { [RawEvent("response.output_item.added", "function_call", "i1", "c1")
          EXCEPT !.name = "boom"],
      RawEvent("response.function_call_arguments.done", "", "i1", ""),
      RawEvent("response.failed", "", "", "") }
EventsOfTurn(turn) == IF turn = 1 THEN FirstTurnEvents ELSE LaterTurnEvents

\* StreamEvent(type=..., phase=..., sequence_number=..., item_id=...,
\* call_id=...); turn is the pass of the loop that yielded it.
\* A field the code leaves out is None: 0 for sequence_number, "" for the ids.
StreamEvent(type, phase, sequence_number, item_id, call_id, raw_event, turn) ==
    [type |-> type, phase |-> phase, sequence_number |-> sequence_number,
     item_id |-> item_id, call_id |-> call_id, raw_event |-> raw_event,
     turn |-> turn, arguments |-> <<>>]

\* Mutant of matches: every open tool call takes the event.
matches_any(call, event) == TRUE

\* `if call["item_id"] == event.item_id`
matches(call, event) == call.value.item_id = event.item_id

\* `for call_id, call in tool_calls.items(): if call["item_id"] == event.item_id`
\* of the argument events: the dict after the pass, and what the pass yields.
ArgumentsPass(calls, event, phase, turn) ==
    [tool_calls |->
        [i \in DOMAIN calls |->
            IF matches(calls[i], event)
            THEN [calls[i] EXCEPT !.value.arguments =
                     IF phase = "delta" THEN Append(@, event.payload)
                     ELSE <<event.payload>>]
            ELSE calls[i]],
     out |->
        LET F[i \in 0..Len(calls)] ==
                IF i = 0 THEN <<>>
                ELSE F[i - 1] \o (IF matches(calls[i], event)
                                  THEN <<[StreamEvent("tool_call", phase,
                                                      event.sequence_number,
                                                      event.item_id,
                                                      calls[i].key, event, turn)
                                             EXCEPT !.arguments = <<event.payload>>]>>
                                  ELSE <<>>)
        IN F[Len(calls)]]

\* Mutant of returns_after: the loop goes on after an ERROR event.
returns_after_none(event) == FALSE

\* The branches of the event loop that end with `return`.
returns_after(event) == event.type \in Terminal

\* Mutant of passthrough: the raw event is never passed through.
passthrough_none(event, internal, turn) == <<>>

\* `if include_internal_events: yield StreamEvent(type=INTERNAL, ...,
\* raw_event=event)`, the first statement of the loop body.
passthrough(event, internal, turn) ==
    IF internal
    THEN <<StreamEvent("internal", "none", event.sequence_number, "", "", event, turn)>>
    ELSE <<>>

\* One pass of `for event in response_stream`: the tool_calls dict, the
\* tool_called flag and the events yielded.
HandleEvent(calls, called, event, internal, turn) ==
    LET raw == passthrough(event, internal, turn)
        same == [tool_calls |-> calls, tool_called |-> called, out |-> raw]
    IN CASE event.type = "response.output_item.added" ->
              IF event.item_type = "function_call"
              THEN [tool_calls |-> DictPut(calls, event.call_id,
                                           [item_id |-> event.item_id, name |-> event.name,
                                            arguments |-> <<>>]),
                    tool_called |-> TRUE,
                    out |-> raw \o <<StreamEvent("tool_call", "none",
                                                 event.sequence_number,
                                                 event.item_id,
                                                 event.call_id, event, turn)>>]
              ELSE IF event.item_type = "message"
              THEN [same EXCEPT !.out = @ \o <<StreamEvent("text", "none",
                                                         event.sequence_number,
                                                         event.item_id, "", event,
                                                         turn)>>]
              ELSE same
         [] event.type = "response.function_call_arguments.delta" ->
              LET pass == ArgumentsPass(calls, event, "delta", turn)
              IN [tool_calls |-> pass.tool_calls, tool_called |-> called,
                  out |-> raw \o pass.out]
         [] event.type = "response.function_call_arguments.done" ->
              LET pass == ArgumentsPass(calls, event, "final", turn)
              IN [tool_calls |-> pass.tool_calls, tool_called |-> called,
                  out |-> raw \o pass.out]
         [] event.type = "response.completed" ->
              [same EXCEPT !.out = @ \o <<StreamEvent("lifecycle", "none",
                                                    event.sequence_number,
                                                    "", "", event, turn)>>]
         [] event.type \in Terminal ->
              [same EXCEPT !.out = @ \o <<StreamEvent("error", "none",
                                IF event.type = "response.failed" THEN 0
                                ELSE event.sequence_number,
                                "", "", event, turn)>>]
         [] OTHER -> same

\* json.loads(call["arguments"]) of the accumulated argument text.
loads_arguments(chunks) ==
    IF chunks = <<ArgsOk>> THEN json_loads(ArgsOk)
    ELSE [raised |-> "JSONDecodeError", value |-> <<>>]

\* self.tools of the streaming agent, in the order of add_tool.
StreamTools == <<ToolGood, ToolBoom>>

\* openai_agent's Tool.resolve_arguments: every declared parameter is cast,
\* whatever the schema's length.
tool_resolve_arguments(t, raw) ==
    LET schema == t.args_schema
        cast == [i \in DOMAIN schema |->
                    validate_and_cast(schema[i], Get(raw, schema[i].name))]
        Last(n) == CHOOSE i \in DOMAIN schema :
                      /\ schema[i].name = n
                      /\ \A j \in DOMAIN schema : schema[j].name = n => j <= i
    IN IF \E i \in DOMAIN cast : cast[i].raised # NoError
       THEN Raise("ValueError")
       ELSE Ok([n \in {schema[i].name : i \in DOMAIN schema} |-> cast[Last(n)].value])

\* Agent._execute_tool: nothing is caught.
execute_tool(name, args) ==
    IF \A i \in DOMAIN StreamTools : StreamTools[i].name # name
    THEN Raise("ValueError")
    ELSE LET found == StreamTools[CHOOSE i \in DOMAIN StreamTools :
                                     StreamTools[i].name = name]
             parsed == tool_resolve_arguments(found, args)
         IN IF parsed.raised # NoError THEN Raise(parsed.raised)
            ELSE Call(found, parsed.value)

\* The loop `for call_id, call in tool_calls.items()` after the response:
\* tool_call appended, arguments loaded, tool executed, tool_output appended;
\* an exception leaves the loop and the generator.
RECURSIVE ExecuteTools(_, _, _, _)
ExecuteTools(calls, p, ran, turn) ==
    IF calls = <<>> THEN [raised |-> NoError, prompt |-> p, executed |-> ran]
    ELSE LET call == Head(calls)
             called == Append(p, [content_type |-> "function_call",
                                  call_id |-> call.key, name |-> call.value.name])
             args == loads_arguments(call.value.arguments)
             outcome == execute_tool(call.value.name, args.value)
             now == Append(ran, [call_id |-> call.key, name |-> call.value.name,
                                 arguments |-> call.value.arguments, turn |-> turn])
         IN IF args.raised # NoError
            THEN [raised |-> args.raised, prompt |-> called, executed |-> ran]
            ELSE IF outcome.raised # NoError
            THEN [raised |-> outcome.raised, prompt |-> called, executed |-> now]
            ELSE ExecuteTools(Tail(calls),
                              Append(called, [content_type |-> "function_call_output",
                                              call_id |-> call.key,
                                              name |-> call.value.name]),
                              now, turn)

\* The generator's start: the input check and the initial prompt.
StreamStart ==
    /\ stream_pc = "start"
    /\ IF stream_input.user_input = NoText
       THEN /\ stream_pc' = "raised"
            /\ stream_error' = "ValueError"
            /\ UNCHANGED stream_prompt
       ELSE /\ stream_pc' = "chat"
            /\ stream_prompt' = <<[content_type |-> "input_text", call_id |-> "",
                                   name |-> "user"]>>
            /\ UNCHANGED stream_error
    /\ UNCHANGED <<stream_input, stream_iteration, stream_tool_calls, tool_called,
                   provided, yielded, executed, runvars, agentvars, toolvars, restvars>>

\* The head of a pass of `for _ in range(self.max_iterations)`: the model is
\* called; after the last pass RuntimeError is raised.
StreamChat ==
    /\ stream_pc = "chat"
    /\ IF stream_iteration < stream_input.max_iterations
       THEN /\ stream_iteration' = stream_iteration + 1
            /\ stream_pc' = "events"
            /\ stream_tool_calls' = <<>>
            /\ tool_called' = FALSE
            /\ UNCHANGED stream_error
       ELSE /\ stream_pc' = "raised"
            /\ stream_error' = "RuntimeError"
            /\ UNCHANGED <<stream_iteration, stream_tool_calls, tool_called>>
    /\ UNCHANGED <<stream_input, provided, yielded, stream_prompt, executed,
                   runvars, agentvars, toolvars, restvars>>

\* The provider events of the pass that is under way.
InTurn(evs, turn) == { i \in DOMAIN evs : evs[i].turn = turn }

\* The provider sends an event and the loop body handles it.
StreamEventIn ==
    /\ stream_pc = "events"
    /\ Cardinality(InTurn(provided, stream_iteration)) < MaxEvents
    /\ \E e \in EventsOfTurn(stream_iteration) :
          LET event == [type |-> e.type, item_type |-> e.item_type,
                        item_id |-> e.item_id, call_id |-> e.call_id,
                        name |-> e.name, payload |-> e.payload,
                        sequence_number |->
                            Cardinality(InTurn(provided, stream_iteration)) + 1,
                        turn |-> stream_iteration]
              h == HandleEvent(stream_tool_calls, tool_called, event,
                               stream_input.include_internal_events, stream_iteration)
          IN /\ provided' = Append(provided, event)
             /\ yielded' = yielded \o h.out
             /\ stream_tool_calls' = h.tool_calls
             /\ tool_called' = h.tool_called
             /\ stream_pc' = IF returns_after(event) THEN "done" ELSE "events"
    /\ UNCHANGED <<stream_input, stream_iteration, stream_prompt, stream_error,
                   executed, runvars, agentvars, toolvars, restvars>>

\* The response stream ends: the generator returns when no tool was called,
\* else the tools run and the next pass begins.
StreamEnd ==
    /\ stream_pc = "events"
    /\ IF ~tool_called
       THEN /\ stream_pc' = "done"
            /\ UNCHANGED <<stream_prompt, stream_error, executed>>
       ELSE LET run == ExecuteTools(stream_tool_calls, stream_prompt, executed,
                                    stream_iteration)
            IN /\ stream_prompt' = run.prompt
               /\ executed' = run.executed
               /\ stream_error' = run.raised
               /\ stream_pc' = IF run.raised # NoError THEN "raised" ELSE "chat"
    /\ UNCHANGED <<stream_input, stream_iteration, stream_tool_calls, tool_called,
                   provided, yielded, runvars, agentvars, toolvars, restvars>>

StreamInit ==
    /\ NoRun /\ AgentIdle /\ ToolIdle /\ RestIdle
    /\ stream_input \in StreamInputs
    /\ StreamIdle
StreamNext == StreamStart \/ StreamChat \/ StreamEventIn \/ StreamEnd
StreamSpec == StreamInit /\ [][StreamNext]_vars

\* ------------------------------------------------ the model request
\* ChatOpenAI._prepare_request_params, its entries for the tools:
\* `active_tools = tools if tools is not None else self._tools`, and the
\* three entries are set when the converted list is not empty.  The Agent's
\* tool_choice is a non-empty string and its parallel_tool_calls a bool, so
\* the values bound to the llm never replace them.
prepare_request_params(llm, stream, given, tool_choice, parallel_tool_calls) ==
    LET active_tools == IF given.given THEN given ELSE llm.tools
    IN IF active_tools.given /\ active_tools.value # <<>>
       THEN [stream |-> stream,
             tools |-> [i \in DOMAIN active_tools.value |->
                           [name |-> active_tools.value[i].name,
                            parameters |->
                                convert_to_openai_tool(active_tools.value[i])]],
             tool_choice |-> tool_choice,
             parallel_tool_calls |-> parallel_tool_calls]
       ELSE [stream |-> stream]

\* The agents and llms of the requests: tools given as None, as an empty
\* list or as a list; tools bound to the llm with bind_tools or not.
RequestAgents ==
    [tools : {NoTools, ToolList(<<>>), ToolList(<<ToolGood>>),
              ToolList(<<ToolGood, ToolBoom>>)},
     tool_choice : {"auto", "none", "required"},
     parallel_tool_calls : BOOLEAN]
RequestLlms == [tools : {NoTools, ToolList(<<>>), ToolList(<<ToolGood>>)}]
\* Model responses without a function call.
TextResponses ==
    { <<MessageItem(<<OutputText(<<"a">>)>>)>>,
      <<Reasoning, MessageItem(<<OutputText(<<"a">>)>>)>> }

\* agent.llm.chat / achat(messages=prompt, stream=..., tools=agent.tools,
\* tool_choice=agent.tool_choice, parallel_tool_calls=agent.parallel_tool_calls)
SendRequest ==
    /\ req_pc = "ready"
    /\ request' = prepare_request_params(req_llm, IsStream(req_mode), req_agent.tools,
                                         req_agent.tool_choice,
                                         req_agent.parallel_tool_calls)
    /\ req_pc' = "asked"
    /\ UNCHANGED <<req_agent, req_llm, req_mode, req_result, req_call,
                   req_tool_output,
                   runvars, agentvars, toolvars, streamvars, messagevars,
                   invokevars, othervars>>

\* A response without a function call: `if not tool_calls: return`.
ReceiveText ==
    /\ req_pc = "asked"
    /\ \E r \in TextResponses :
          LET seen == Inspect(IsStream(req_mode), r)
          IN /\ no_tool_calls(Values(seen.tool_calls))
             /\ req_result' = [returned |-> TRUE, new_items |-> seen.items,
                               final_output |-> seen.text]
    /\ req_pc' = "returned"
    /\ UNCHANGED <<req_agent, req_llm, req_mode, request, req_call,
                   req_tool_output,
                   runvars, agentvars, toolvars, streamvars, messagevars,
                   invokevars, othervars>>

\* Agent._tools of the requesting agent: add_tools(self.tools).
RequestRegistry == add_tools(req_agent.tools.value).value

\* The model answers with a call of a tool it was offered, and the run
\* executes it: `tool = agent._tools.get(name)`, the not-found text when
\* there is none.
ReceiveCall ==
    /\ req_pc = "asked"
    /\ "tools" \in DOMAIN request
    /\ \E i \in DOMAIN request.tools :
          LET name == request.tools[i].name
          IN /\ req_call' = [call_id |-> <<"call", 1, 1>>, name |-> name,
                              arguments |-> ArgsOk]
             /\ req_tool_output' =
                   IF name \notin DOMAIN RequestRegistry THEN NotFoundText(name)
                   ELSE run_tool(name, ArgsOk, IsAsync(req_mode))
    /\ req_pc' = "called"
    /\ UNCHANGED <<req_agent, req_llm, req_mode, request, req_result,
                   runvars, agentvars, toolvars, streamvars, messagevars,
                   invokevars, othervars>>

RequestInit ==
    /\ NoRun /\ AgentIdle /\ ToolIdle /\ NoStream /\ NoMessage /\ NoInvoke
    /\ OtherIdle
    /\ req_agent \in RequestAgents
    /\ req_llm \in RequestLlms
    /\ req_mode \in Modes
    /\ req_pc = "ready"
    /\ request = [stream |-> FALSE]
    /\ req_result = NoResult
    /\ req_call = NoCall
    /\ req_tool_output = NoText
RequestNext == SendRequest \/ ReceiveText \/ ReceiveCall
RequestSpec == RequestInit /\ [][RequestNext]_vars

\* ------------------------------------------ messages offered to a template
\* A field of the constructor: left at None, or given a value.
Left(value) == [given |-> FALSE, value |-> value]
Passed(value) == [given |-> TRUE, value |-> value]
\* PromptMessage(content_type=..., **fields): the record of the fields given.
Message(content_type, fields) ==
    [f \in {g \in DOMAIN fields : fields[g].given} \cup {"content_type"} |->
        IF f = "content_type" THEN content_type ELSE fields[f].value]
\* The messages offered: of each variant, with each required field left out,
\* given empty or given; and one of a content_type that is no variant.
OfferedMessages ==
    { Message("text", f) :
        f \in [role : {Left(""), Passed("user"), Passed("assistant")},
               text : {Left(<<>>), Passed(NoText), Passed(<<"hi">>)}] }
    \cup
    { Message("tool_call", f) :
        f \in [name : {Left(""), Passed(""), Passed("good")},
               arguments : {Left(""), Passed(ArgsOk)},
               call_id : {Left(<<>>), Passed(<<>>), Passed(<<"call", 1, 1>>)}] }
    \cup
    { Message("tool_call_output", f) :
        f \in [call_id : {Left(<<>>), Passed(<<>>), Passed(<<"call", 1, 1>>)},
               output : {Left(<<>>), Passed(<<"done">>)}] }
    \cup
    { Message("message", [role |-> Passed("user"), text |-> Passed(<<"hi">>)]) }

\* template.add_message(PromptMessage(...)): the constructor runs
\* _validate_invariants before add_message is entered.
OfferMessage ==
    /\ msg_offered < MaxMessages
    /\ \E m \in OfferedMessages :
          /\ msg_attempt' = m
          /\ IF validate_invariants(m)
             THEN /\ msg_prompt' = add_message(msg_prompt, m)
                  /\ msg_error' = NoError
             ELSE /\ msg_error' = "ValueError"
                  /\ UNCHANGED msg_prompt
    /\ msg_offered' = msg_offered + 1
    /\ UNCHANGED <<runvars, agentvars, toolvars, streamvars, requestvars,
                   invokevars, othervars>>

MessageInit ==
    /\ NoRun /\ AgentIdle /\ ToolIdle /\ NoStream /\ NoRequest /\ NoInvoke
    /\ OtherIdle
    /\ NoMessage
MessageNext == OfferMessage
MessageSpec == MessageInit /\ [][MessageNext]_vars

\* --------------------------------------------- openai_agent Agent.invoke
InvokeInputs == [user_input : UserInputs, max_iterations : 0..MaxIter]

\* An item of response.output: a function call with its argument text, a
\* message with its content parts, or an item of another type.
InvokeCall(name, arguments, call_id) ==
    [type |-> "function_call", name |-> name, arguments |-> arguments,
     call_id |-> call_id, content |-> <<>>]
InvokeMessage(content) ==
    [type |-> "message", name |-> "", arguments |-> "", call_id |-> "",
     content |-> content]
InvokeItems ==
    { InvokeCall("good", ArgsOk, "c1"),
      InvokeCall("boom", ArgsOk, "c2"),
      InvokeCall("ghost", ArgsOk, "c3"),
      InvokeCall("good", ArgsMissing, "c4"),
      InvokeMessage(<<OutputText(<<"a">>)>>),
      InvokeMessage(<<Refusal>>),
      [type |-> "reasoning", name |-> "", arguments |-> "", call_id |-> "",
       content |-> <<>>] }
\* What the model may answer in one pass: up to two items.
InvokeResponses ==
    {<<>>} \cup { <<a>> : a \in InvokeItems }
           \cup { <<a, b>> : a \in InvokeItems, b \in InvokeItems }

\* The start of invoke: the input check and the initial prompt.
InvokeStart ==
    /\ invoke_pc = "start"
    /\ IF invoke_input.user_input = NoText
       THEN /\ invoke_pc' = "raised"
            /\ invoke_error' = "ValueError"
            /\ UNCHANGED invoke_prompt
       ELSE /\ invoke_pc' = "chat"
            /\ invoke_prompt' = <<[content_type |-> "input_text", call_id |-> "",
                                   name |-> "user"]>>
            /\ UNCHANGED invoke_error
    /\ UNCHANGED <<invoke_input, invoke_iteration, invoke_output, invoke_tool_called,
                   invoke_final, invoke_result, runvars, agentvars, toolvars,
                   streamvars, requestvars, messagevars,
                   othervars>>

\* The head of a pass of `for _ in range(self.max_iterations)`: the model
\* answers with a response; after the last pass RuntimeError is raised.
InvokeChat ==
    /\ invoke_pc = "chat"
    /\ IF invoke_iteration < invoke_input.max_iterations
       THEN /\ invoke_iteration' = invoke_iteration + 1
            /\ invoke_pc' = "items"
            /\ invoke_output' \in InvokeResponses
            /\ invoke_tool_called' = FALSE
            /\ invoke_final' = NoFinal
            /\ UNCHANGED invoke_error
       ELSE /\ invoke_pc' = "raised"
            /\ invoke_error' = "RuntimeError: exceeded max iterations"
            /\ UNCHANGED <<invoke_iteration, invoke_output, invoke_tool_called,
                           invoke_final>>
    /\ UNCHANGED <<invoke_input, invoke_prompt, invoke_result, runvars, agentvars,
                   toolvars, streamvars, requestvars, messagevars,
                   othervars>>

\* One pass of `for item in response.output`: a function call is recorded,
\* its arguments loaded and the tool executed, nothing being caught; a
\* message sets final_output.
InvokeItem ==
    /\ invoke_pc = "items"
    /\ invoke_output # <<>>
    /\ LET item == Head(invoke_output)
           called == Append(invoke_prompt,
                            [content_type |-> "function_call",
                             call_id |-> item.call_id, name |-> item.name])
           args == json_loads(item.arguments)
           outcome == execute_tool(item.name, args.value)
       IN IF item.type = "function_call"
          THEN /\ invoke_tool_called' = TRUE
               /\ UNCHANGED invoke_final
               /\ IF args.raised # NoError
                  THEN /\ invoke_prompt' = called
                       /\ invoke_error' = args.raised
                       /\ invoke_pc' = "raised"
                       /\ UNCHANGED invoke_output
                  ELSE IF outcome.raised # NoError
                  THEN /\ invoke_prompt' = called
                       /\ invoke_error' = outcome.raised
                       /\ invoke_pc' = "raised"
                       /\ UNCHANGED invoke_output
                  ELSE /\ invoke_prompt' =
                              Append(called, [content_type |-> "function_call_output",
                                              call_id |-> item.call_id,
                                              name |-> item.name])
                       /\ invoke_output' = Tail(invoke_output)
                       /\ UNCHANGED <<invoke_pc, invoke_error>>
          ELSE /\ invoke_final' = IF item.type = "message"
                                   THEN [given |-> TRUE,
                                         value |-> JoinOutputText(item.content)]
                                   ELSE invoke_final
               /\ invoke_output' = Tail(invoke_output)
               /\ UNCHANGED <<invoke_tool_called, invoke_prompt, invoke_pc,
                              invoke_error>>
    /\ UNCHANGED <<invoke_input, invoke_iteration, invoke_result, runvars,
                   agentvars, toolvars, streamvars, requestvars, messagevars,
                   othervars>>

\* After the items of the response: `if tool_called: continue`, `if
\* final_output is not None: return final_output`, else RuntimeError.
InvokeTurnEnd ==
    /\ invoke_pc = "items"
    /\ invoke_output = <<>>
    /\ IF invoke_tool_called
       THEN /\ invoke_pc' = "chat"
            /\ UNCHANGED <<invoke_result, invoke_error>>
       ELSE IF invoke_final.given
       THEN /\ invoke_pc' = "done"
            /\ invoke_result' = [returned |-> TRUE, value |-> invoke_final.value]
            /\ UNCHANGED invoke_error
       ELSE /\ invoke_pc' = "raised"
            /\ invoke_error' = "RuntimeError"
            /\ UNCHANGED invoke_result
    /\ UNCHANGED <<invoke_input, invoke_iteration, invoke_output, invoke_tool_called,
                   invoke_final, invoke_prompt, runvars, agentvars, toolvars,
                   streamvars, requestvars, messagevars,
                   othervars>>

InvokeInit ==
    /\ NoRun /\ AgentIdle /\ ToolIdle /\ NoStream /\ NoRequest /\ NoMessage
    /\ OtherIdle
    /\ invoke_input \in InvokeInputs
    /\ InvokeIdle
InvokeNext == InvokeStart \/ InvokeChat \/ InvokeItem \/ InvokeTurnEnd
InvokeSpec == InvokeInit /\ [][InvokeNext]_vars

\* ------------------------------------ two runs on one agent and template
\* The two callers' inputs, and what the model may answer to a run: a text,
\* or one call of the tool good.
PairInputs == [Runs -> {NoText, <<"hi">>, <<"ho">>}]
PairAgents == { a \in Agents : a.max_iterations >= 1
                                /\ a.max_tool_calls = DEFAULT_MAX_TOOL_CALLS_LIMIT }
PairCall(r, turn) ==
    [call_id |-> <<"call", r, turn>>, name |-> "good", arguments |-> ArgsOk]

\* The entry of a run up to the loop: the input check and _build_prompt.
PairStart(r) ==
    /\ pair_pc[r] = "start"
    /\ IF is_empty(pair_input[r])
       THEN /\ pair_pc' = [pair_pc EXCEPT ![r] = "raised"]
            /\ pair_error' = [pair_error EXCEPT ![r] = "ValueError"]
            /\ UNCHANGED pair_prompt
       ELSE LET b == build_prompt(pair_agent, pair_input[r], pair_template)
            IN IF b.raised # NoError
               THEN /\ pair_pc' = [pair_pc EXCEPT ![r] = "raised"]
                    /\ pair_error' = [pair_error EXCEPT ![r] = b.raised]
                    /\ UNCHANGED pair_prompt
               ELSE /\ pair_pc' = [pair_pc EXCEPT ![r] = "loop"]
                    /\ pair_prompt' = [pair_prompt EXCEPT ![r] = b.value]
                    /\ UNCHANGED pair_error
    /\ UNCHANGED <<pair_agent, pair_template, pair_input, pair_iteration, pair_call,
                   pair_sent, runvars, agentvars, toolvars, streamvars, requestvars,
                   messagevars, invokevars>>

\* The head of the loop: the conversation goes to the model, which answers
\* with a text (the run returns) or a tool call; past the bound the run
\* raises.
PairModelCall(r) ==
    /\ pair_pc[r] = "loop"
    /\ IF loop_continues(pair_iteration[r], pair_agent)
       THEN /\ pair_sent' = [pair_sent EXCEPT ![r] = Append(@, pair_prompt[r])]
            /\ \/ /\ pair_pc' = [pair_pc EXCEPT ![r] = "returned"]
                  /\ UNCHANGED pair_call
               \/ /\ pair_pc' = [pair_pc EXCEPT ![r] = "tool"]
                  /\ pair_call' = [pair_call EXCEPT
                                      ![r] = PairCall(r, pair_iteration[r] + 1)]
            /\ UNCHANGED pair_error
       ELSE /\ pair_pc' = [pair_pc EXCEPT ![r] = "raised"]
            /\ pair_error' = [pair_error EXCEPT
                                 ![r] = "RuntimeError: exceeded max iterations"]
            /\ UNCHANGED <<pair_sent, pair_call>>
    /\ UNCHANGED <<pair_agent, pair_template, pair_input, pair_prompt,
                   pair_iteration, runvars, agentvars, toolvars, streamvars,
                   requestvars, messagevars, invokevars>>

\* The tool loop of the turn: add_tool_call, _arun_tool, add_tool_output,
\* `iteration += 1`.
PairTool(r) ==
    /\ pair_pc[r] = "tool"
    /\ LET call == pair_call[r]
           called == add_tool_call(pair_prompt[r], call.name, call.arguments,
                                   call.call_id)
       IN pair_prompt' = [pair_prompt EXCEPT
              ![r] = add_tool_output(called, call.call_id,
                                     run_tool(call.name, call.arguments, TRUE))]
    /\ pair_iteration' = [pair_iteration EXCEPT ![r] = @ + 1]
    /\ pair_pc' = [pair_pc EXCEPT ![r] = "loop"]
    /\ UNCHANGED <<pair_agent, pair_template, pair_input, pair_call, pair_sent,
                   pair_error, runvars, agentvars, toolvars, streamvars,
                   requestvars, messagevars, invokevars>>

PairInit ==
    /\ NoRun /\ AgentIdle /\ ToolIdle /\ NoStream /\ NoRequest /\ NoMessage
    /\ NoInvoke
    /\ pair_agent \in PairAgents
    /\ pair_template \in Templates
    /\ pair_input \in PairInputs
    /\ PairIdle
PairNext == \E r \in Runs : PairStart(r) \/ PairModelCall(r) \/ PairTool(r)
PairSpec == PairInit /\ [][PairNext]_vars

Next == Construct \/ Start \/ ModelCall \/ BudgetExceeded \/ AddToolCall \/ RunTool \/ AddToolOutput

Spec == Init /\ [][Next]_vars

\* The run under the proviso that every model call, every tool call and the
\* consumption of every event stream returns: a step that can be taken is
\* taken.
FairSpec == Spec /\ WF_vars(Next)

\* A streaming run of either package: Runner.run_stream or arun_stream, or
\* openai_agent's Agent.stream.
StreamingInit == (Init /\ IsStream(mode)) \/ StreamInit
StreamingNext == (IsStream(mode) /\ Next) \/ (~IsStream(mode) /\ StreamNext)
StreamingSpec == StreamingInit /\ [][StreamingNext]_vars

\* A run that returns a result: Runner.run, or openai_agent's Agent.invoke,
\* whichever starts.
BlockingInit == (Init /\ mode = "run") \/ InvokeInit
BlockingNext == (invoke_pc = "start" /\ Next) \/ (pc = "new" /\ InvokeNext)
BlockingSpec == BlockingInit /\ [][BlockingNext]_vars

\* ------------------------------------------------------------ the claims
BudgetError == "RuntimeError: exceeded max iterations"
Ended == pc \in {"returned", "raised"}

\* The messages the run appended after _build_prompt, by position in prompt.
Own == (base + 1)..Len(prompt)
IsCall(m) == m.content_type = "tool_call"
IsOutput(m) == m.content_type = "tool_call_output"
IsAssistant(m) == m.content_type = "text" /\ m.role = "assistant"
\* The turn a call_id was issued in.
Turn(call_id) == call_id[2]

RECURSIVE CallIdsIn(_, _, _)
\* The call_ids of the messages of p of the given content_type and turn, in
\* order.
CallIdsIn(p, t, kind) ==
    IF p = <<>> THEN <<>>
    ELSE (IF p[1].content_type = kind /\ Turn(p[1].call_id) = t
          THEN <<p[1].call_id>> ELSE <<>>) \o CallIdsIn(Tail(p), t, kind)
OwnMessages == SubSeq(prompt, base + 1, Len(prompt))
RecordsOfTurn(t) == CallIdsIn(OwnMessages, t, "tool_call")
OutputsOfTurn(t) == CallIdsIn(OwnMessages, t, "tool_call_output")

HasCalls(r) == \E i \in DOMAIN r : r[i].type = "function_call"
HasText(r) ==
    \E i \in DOMAIN r : r[i].type = "message" /\ JoinOutputText(r[i].content) # NoText
CallIdsOf(r) ==
    LET F[i \in 0..Len(r)] ==
            IF i = 0 THEN <<>>
            ELSE F[i - 1] \o (IF r[i].type = "function_call" THEN <<r[i].call_id>>
                                                              ELSE <<>>)
    IN F[Len(r)]
IsPrefix(a, b) == Len(a) <= Len(b) /\ SubSeq(b, 1, Len(a)) = a

\* C1: with max_iterations = N and a model that requests a tool call on every
\* turn, a run given a non-empty input calls the model exactly N times and
\* then raises the 'exceeded max iterations' error; the model is never called
\* more than N times.  (A run that has not returned has seen a tool call in
\* every response.)
C1_ExactlyNModelCalls ==
    /\ model_calls <= agent.max_iterations
    /\ (pc = "raised" /\ user_input # NoText)
          => (error = BudgetError /\ model_calls = agent.max_iterations)

\* The same for the runs that are given no template.
C1_WithoutTemplate ==
    /\ model_calls <= agent.max_iterations
    /\ (pc = "raised" /\ user_input # NoText /\ ~prompt_template.given)
          => (error = BudgetError /\ model_calls = agent.max_iterations)

\* The three failures of a tool call that C2 names, read off a tool-call
\* record m of the conversation.
BadJsonCase(m) == Registered(m.name) /\ m.arguments = ArgsBadJson
ResolveFailsCase(m) == Registered(m.name) /\ m.arguments = ArgsMissing
CallableRaisesCase(m) ==
    /\ Registered(m.name) /\ m.arguments = ArgsOk
    /\ ToolNamed(m.name).raises
    /\ (IsAsync(mode) \/ ToolNamed(m.name).func)
FailureCase(m) == BadJsonCase(m) \/ ResolveFailsCase(m) \/ CallableRaisesCase(m)
IsErrorText(output) == output # <<>> /\ Head(output) = ErrorPrefix
\* The own tool-call records that fail and are already answered.
AnsweredFailures ==
    { i \in Own : IsCall(prompt[i]) /\ FailureCase(prompt[i]) /\ i < Len(prompt) }

\* C2 (as stated): after a tool failure the loop goes on to the next model
\* call, so a run that has ended has called the model again after every
\* turn in which a tool call failed.
C2_NextModelCallFollows ==
    Ended => \A i \in AnsweredFailures : model_calls > Turn(prompt[i].call_id)

\* C2 (amended): a failing tool call (the callable raises, the argument text
\* is not JSON, argument resolution fails) raises nothing to the caller: its
\* record is followed at once by a tool-output message with the same call_id
\* whose text starts with "Error executing tool", and the loop goes on, to
\* the next model call or, when the turn was the last permitted one, to the
\* 'exceeded max iterations' error.
C2_ToolFailureContained ==
    /\ \A i \in Own :
          (IsCall(prompt[i]) /\ FailureCase(prompt[i])) =>
             IF i = Len(prompt)
             THEN /\ pc \in {"run_tool", "add_tool_output"}
                  /\ pc = "add_tool_output" => IsErrorText(tool_output)
             ELSE /\ IsOutput(prompt[i + 1])
                  /\ prompt[i + 1].call_id = prompt[i].call_id
                  /\ IsErrorText(prompt[i + 1].output)
    /\ (AnsweredFailures # {} /\ pc = "raised") =>
          /\ error = BudgetError
          /\ model_calls = agent.max_iterations
    /\ Ended => \A i \in AnsweredFailures :
          \/ model_calls > Turn(prompt[i].call_id)
          \/ error = BudgetError /\ Turn(prompt[i].call_id) = agent.max_iterations

\* C2 witness: a callable that raised in the first turn, then a turn with bad
\* JSON and with a missing argument, all answered, and the budget error.
C2_Witness ==
    /\ pc = "raised" /\ error = BudgetError
    /\ \E i, j, k \in AnsweredFailures :
          /\ CallableRaisesCase(prompt[i]) /\ Turn(prompt[i].call_id) = 1
          /\ BadJsonCase(prompt[j]) /\ ResolveFailsCase(prompt[k])
          /\ model_calls > Turn(prompt[i].call_id)

Count(S) == Cardinality(S)
OwnCalls == { i \in Own : IsCall(prompt[i]) }
OwnOutputs == { i \in Own : IsOutput(prompt[i]) }

\* C3: where the run calls the model, returns or raises the budget error,
\* the messages it appended hold as many tool outputs as tool calls, and
\* every tool output comes after a tool call with the same call_id.
C3_OutputsMatchCalls ==
    (pc \in {"loop", "returned"} \/ (pc = "raised" /\ error = BudgetError)) =>
        /\ Count(OwnOutputs) = Count(OwnCalls)
        /\ \A j \in OwnOutputs :
              \E i \in OwnCalls : i < j /\ prompt[i].call_id = prompt[j].call_id

\* C3 witness: the budget error after two turns, one with two tool calls
\* and one with a failing tool call.
C3_Witness ==
    /\ pc = "raised" /\ error = BudgetError /\ model_calls = 2
    /\ Count(OwnCalls) >= 3
    /\ \E j \in OwnOutputs : IsErrorText(prompt[j].output)

\* C4: when the first model response holds no tool call, the run returns
\* its result after that one model call and runs no tool.
C4_ReturnsAfterOneCall ==
    (model_calls = 1 /\ ~HasCalls(response)) =>
        /\ pc = "returned"
        /\ result.returned
        /\ result.final_output = final_output_text
        /\ tool_runs = 0

\* C4 witness: Runner.run returned the text of a first response without
\* tool calls.
C4_Witness ==
    /\ mode = "run" /\ pc = "returned" /\ model_calls = 1
    /\ ~HasCalls(response) /\ result.final_output = <<"a">>

\* C5: in run and arun a model turn with no tool call and no assistant text
\* ends the run with an error and returns no result.
C5_EmptyTurnIsFatal ==
    (mode \in {"run", "arun"} /\ model_calls > 0
     /\ ~HasCalls(response) /\ ~HasText(response)) =>
        (pc = "raised" /\ ~result.returned)

\* C6: with an empty user_input the run raises ValueError at once: no
\* model call, no tool, no event, no message.
C6_EmptyInputRejected ==
    user_input = NoText =>
        /\ pc \in {"new", "invalid", "start"} \/ (pc = "raised" /\ error = "ValueError")
        /\ model_calls = 0 /\ tool_runs = 0
        /\ events = <<>> /\ prompt = <<>>

\* C6 witness: a streaming run rejected for its empty input.
C6_Witness ==
    /\ user_input = NoText /\ IsStream(mode)
    /\ pc = "raised" /\ error = "ValueError"

\* C7: the tool outputs of a turn are appended in the order in which the
\* calls appear in the model's response.
C7_OutputsInCallOrder ==
    /\ IsPrefix(OutputsOfTurn(model_calls), CallIdsOf(response))
    /\ (pc = "loop" /\ model_calls > 0) =>
          OutputsOfTurn(model_calls) = CallIdsOf(response)

\* C7 witness: Runner.run has appended the three outputs of a turn with
\* three tool calls.
C7_Witness ==
    /\ mode = "run" /\ pc = "loop" /\ model_calls = 1
    /\ Len(OutputsOfTurn(1)) = 3

\* C8 (as stated): when a tool of a turn is about to execute, the records
\* of all the turn's tool calls are in the conversation.
C8_AllRecordsBeforeAnyTool ==
    pc = "run_tool" => Len(RecordsOfTurn(model_calls)) = Len(tool_calls)

\* C8 (amended): the record of a call is appended right before that call's
\* tool executes and its output right after; the record of the next call of
\* the turn follows the outputs of the calls before it.
C8_RecordThenToolThenOutput ==
    /\ pc = "run_tool" =>
          /\ Len(RecordsOfTurn(model_calls)) = tc
          /\ Len(OutputsOfTurn(model_calls)) = tc - 1
          /\ IsCall(prompt[Len(prompt)])
    /\ pc = "add_tool_call" =>
          /\ Len(RecordsOfTurn(model_calls)) = tc - 1
          /\ Len(OutputsOfTurn(model_calls)) = tc - 1
          /\ tc > 1 => IsOutput(prompt[Len(prompt)])

\* C8 witness: the second tool of a turn is about to execute.
C8_Witness ==
    /\ mode = "run" /\ pc = "run_tool" /\ tc = 2
    /\ Len(OutputsOfTurn(model_calls)) = 1

\* C9: whenever a tool is about to execute, the conversation holds the
\* tool-call record of that call.
C9_RecordBeforeExecution ==
    pc = "run_tool" =>
        \E i \in Own :
            /\ IsCall(prompt[i])
            /\ prompt[i].call_id = tool_calls[tc].call_id
            /\ prompt[i].name = tool_calls[tc].name
            /\ prompt[i].arguments = tool_calls[tc].arguments

\* C9 witness: a tool is about to execute in a streaming run.
C9_Witness ==
    /\ mode = "arun_stream" /\ pc = "run_tool" /\ model_calls = 2

\* C10: at the start of the tool loop of Runner.run / arun, a turn that holds
\* assistant text has had one assistant message appended, the last message of
\* the conversation, and a turn without text has none.
TurnStart == mode \in {"run", "arun"} /\ pc = "add_tool_call" /\ tc = 1
C10_AssistantTextAppended ==
    TurnStart =>
        (HasText(response) <=>
            (IsAssistant(prompt[Len(prompt)]) /\ prompt[Len(prompt)].text # NoText))

\* C10 for the text Runner.run keeps, that of the last message item of the
\* response: it is appended once, before the turn's records, when not empty.
LastMessageText(r) ==
    LET M == { i \in DOMAIN r : r[i].type = "message" }
    IN IF M = {} THEN NoText
       ELSE JoinOutputText(r[CHOOSE i \in M : \A j \in M : j <= i].content)
C10_LastMessageTextAppended ==
    TurnStart =>
        IF LastMessageText(response) # NoText
        THEN /\ IsAssistant(prompt[Len(prompt)])
             /\ prompt[Len(prompt)].text = LastMessageText(response)
             /\ ~IsAssistant(prompt[Len(prompt) - 1])
        ELSE ~IsAssistant(prompt[Len(prompt)])

\* Every message of the conversation satisfies PromptMessage's invariants.
AllMessagesValid == \A i \in DOMAIN prompt : validate_invariants(prompt[i])

C13_BoundRejectedAtConstruction ==
    /\ pc = "invalid" <=> (agent.max_iterations < 1 /\ error = "ValueError")
    /\ pc \notin {"new", "invalid"} => agent.max_iterations >= 1
    /\ pc = "invalid" => model_calls = 0 /\ prompt = <<>> /\ events = <<>>
    /\ (pc = "raised" /\ error = BudgetError) => model_calls >= 1

\* C13 witness: a rejected construction, with user input that a run would
\* take.
C13_Witness ==
    pc = "invalid" /\ agent.max_iterations = 0 /\ user_input # NoText

\* ------------------------------------------- claims on Agent and Tool
HasDuplicate(ts) == \E i, j \in DOMAIN ts : i # j /\ ts[i].name = ts[j].name

\* C12: constructing an Agent from a tool list with two tools of one name
\* raises ValueError; a constructed Agent's registry maps the name of every
\* tool of the list to that tool and holds no other name.
C12_DuplicateToolRejected ==
    /\ agent_pc = "invalid" => HasDuplicate(tools) /\ registry.raised = "ValueError"
    /\ agent_pc = "constructed" =>
          /\ ~HasDuplicate(tools)
          /\ registry.raised = NoError
          /\ DOMAIN registry.value = { tools[i].name : i \in DOMAIN tools }
          /\ \A i \in DOMAIN tools : registry.value[tools[i].name] = tools[i]

\* C12 witness: a list of three tools whose first and last share a name was
\* rejected.
C12_Witness ==
    /\ agent_pc = "invalid" /\ Len(tools) = 3
    /\ tools[1].name = tools[3].name /\ tools[1] # tools[3]
    /\ tools[2].name # tools[1].name

Declared(t) == { t.args_schema[i].name : i \in DOMAIN t.args_schema }
RuntimeParams(t) == { h \in DOMAIN t.hints : t.hints[h] = "ToolRuntime" }
\* The value of raw_args that entry i of the tool's schema takes.
Given(i) == Get(raw_args, tool.args_schema[i].name)
Uncastable(i) ==
    Given(i) = NoneV \/ type_call(tool.args_schema[i].type, Given(i)).raised # NoError

\* C14: with a declared schema, _resolve_arguments raises ValueError when a
\* declared parameter is missing or null or its value cannot be cast, and
\* else returns every declared parameter with a value of its declared type
\* (the string "2" for an int parameter gives the integer 2).
C14_ResolveCastsOrRaises ==
    (tool_pc = "resolved" /\ tool.args_schema # <<>>) =>
        IF \E i \in DOMAIN tool.args_schema : Uncastable(i)
        THEN resolved.raised = "ValueError"
        ELSE /\ resolved.raised = NoError
             /\ DOMAIN resolved.value = Declared(tool)
             /\ \A i \in DOMAIN tool.args_schema :
                   LET arg == tool.args_schema[i]
                   IN /\ resolved.value[arg.name].t = arg.type
                      /\ (arg.type = "int" /\ Given(i) = StrV("2"))
                            => resolved.value[arg.name] = IntV("2")

\* C14 witness: the string "2" resolved for an int parameter, next to a
\* float resolved for a bool parameter.
C14_Witness ==
    /\ tool_pc = "resolved" /\ resolved.raised = NoError
    /\ tool.args_schema = <<[name |-> "x", type |-> "int"],
                            [name |-> "y", type |-> "bool"]>>
    /\ raw_args.x = StrV("2") /\ resolved.value.x = IntV("2")
    /\ resolved.value.y = BoolV("True")

\* C15: with a non-empty schema the callable receives, from the model, the
\* declared parameters with their cast values and no key that the schema
\* does not declare.
C15_OnlyDeclaredArgumentsPass ==
    (tool_pc \in {"ran", "ran_again"} /\ tool.args_schema # <<>>
     /\ kwargs.raised = NoError) =>
        /\ DOMAIN kwargs.value \ RuntimeParams(tool) = Declared(tool)
        /\ \A i \in DOMAIN tool.args_schema :
              kwargs.value[tool.args_schema[i].name]
                 = type_call(tool.args_schema[i].type, Given(i)).value
        /\ \A k \in DOMAIN raw_args \ Declared(tool) :
              k \in DOMAIN kwargs.value => kwargs.value[k].t = "ToolRuntime"

\* C15 witness: the callable was called although the model sent a key z that
\* the schema does not declare.
C15_Witness ==
    /\ tool_pc = "ran" /\ kwargs.raised = NoError
    /\ Declared(tool) = {"x", "y"} /\ "z" \in DOMAIN raw_args
    /\ DOMAIN kwargs.value = {"x", "y"}

\* C16: resolving what _resolve_arguments returned yields the same values.
C16_ResolveIdempotent ==
    tool_pc = "resolved_again" => resolved_again = resolved

\* C16 witness: a second resolution of values that the first one changed.
C16_Witness ==
    /\ tool_pc = "resolved_again"
    /\ Len(tool.args_schema) = 2
    /\ \A n \in Declared(tool) : resolved.value[n] # raw_args[n]
    /\ \E n \in Declared(tool) : resolved.value[n].t = "bool"

\* C17: after Tool.run the callable's ToolRuntime parameters, and no other
\* argument, hold a ToolRuntime; it holds the entries of the call's
\* runtime_context (none when no context was given), whatever the model sent
\* under the parameter's name and whatever the call before was given.
C17_RuntimeFromContextOnly ==
    (tool_pc \in {"ran", "ran_again"} /\ kwargs.raised = NoError) =>
        /\ RuntimeParams(tool) \subseteq DOMAIN kwargs.value
        /\ \A n \in DOMAIN kwargs.value :
              IF n \in RuntimeParams(tool)
              THEN /\ kwargs.value[n].t = "ToolRuntime"
                   /\ kwargs.value[n].v = runtime_context.entries
                   /\ ~runtime_context.given => DOMAIN kwargs.value[n].v = {}
              ELSE kwargs.value[n].t # "ToolRuntime"

\* C17 witness: a second call, given no context after a call given a
\* context, of a tool without schema to which the model sent a key ctx.
C17_Witness ==
    /\ tool_pc = "ran_again" /\ kwargs.raised = NoError
    /\ tool.args_schema = <<>> /\ "ctx" \in RuntimeParams(tool)
    /\ "ctx" \in DOMAIN raw_args
    /\ "session" \in DOMAIN earlier_context.entries
    /\ ~runtime_context.given
    /\ DOMAIN kwargs.value.ctx.v = {}

\* C18: the tool definition shown to the model lists the parameters of
\* args_schema, each of them required, and no ToolRuntime parameter.
C18_SchemaListsDeclaredOnly ==
    tool_pc = "converted" =>
        /\ DOMAIN openai_tool.properties = Declared(tool)
        /\ openai_tool.required
              = [i \in DOMAIN tool.args_schema |-> tool.args_schema[i].name]
        /\ \A h \in RuntimeParams(tool) :
              /\ h \notin DOMAIN openai_tool.properties
              /\ \A i \in DOMAIN openai_tool.required : openai_tool.required[i] # h

\* C18 witness: the definition of a tool with two declared parameters and a
\* ToolRuntime parameter.
C18_Witness ==
    /\ tool_pc = "converted" /\ RuntimeParams(tool) = {"ctx"}
    /\ DOMAIN openai_tool.properties = {"x", "y"}
    /\ openai_tool.properties.x = "integer"

\* What Agent.stream has yielded and been sent, by kind.
Errors == { i \in DOMAIN yielded : yielded[i].type = "error" }
ToolCallEvents(phase) ==
    { i \in DOMAIN yielded : yielded[i].type = "tool_call" /\ yielded[i].phase = phase }
Ends == { i \in DOMAIN provided :
            provided[i].type \in {"response.failed", "response.incomplete", "error"} }
ArgumentEvents ==
    { i \in DOMAIN provided :
        provided[i].type \in {"response.function_call_arguments.delta",
                              "response.function_call_arguments.done"} }
Announced(i) ==
    \E j \in 1..(i - 1) :
        /\ provided[j].type = "response.output_item.added"
        /\ provided[j].item_type = "function_call"
        /\ provided[j].turn = provided[i].turn
        /\ provided[j].item_id = provided[i].item_id
YieldedFor(i) ==
    { j \in DOMAIN yielded :
        /\ yielded[j].turn = provided[i].turn
        /\ yielded[j].sequence_number = provided[i].sequence_number }

\* C19: a response.failed, response.incomplete or error event of the provider
\* makes Agent.stream yield one ERROR event, the last event of the stream; the
\* generator then returns without raising, and from then on no tool is
\* executed, no model call is made and nothing more is yielded, also when the
\* turn had announced tool calls.
C19_ErrorEndsStream ==
    /\ [](/\ Cardinality(Errors) = Cardinality(Ends)
          /\ Ends # {} =>
                /\ Cardinality(Errors) = 1
                /\ Errors = {Len(yielded)}
                /\ Ends = {Len(provided)}
                /\ stream_pc = "done"
                /\ stream_error = NoError)
    /\ [][Errors # {} =>
            UNCHANGED <<executed, stream_iteration, yielded, stream_prompt,
                        stream_pc, stream_error>>]_vars

\* C19 witness: the provider fails a response in which it had announced a
\* tool call and sent its arguments; the stream has ended with the ERROR
\* event and no tool has run.
C19_Witness ==
    /\ stream_pc = "done" /\ Errors # {}
    /\ executed = <<>>
    /\ \E i \in ToolCallEvents("final") : yielded[i].turn = yielded[Len(yielded)].turn
    /\ stream_tool_calls # <<>>

\* C20 (as stated): every TOOL_CALL/DELTA and TOOL_CALL/FINAL event follows a
\* TOOL_CALL/NONE event of its turn for the same item id, no TOOL_CALL/DELTA
\* of an item follows the item's TOOL_CALL/FINAL, and an argument event for an
\* item id that was not announced yields no event.
C20_ToolCallEventsOrdered ==
    /\ \A i \in ToolCallEvents("delta") \cup ToolCallEvents("final") :
          \E j \in ToolCallEvents("none") :
              /\ j < i
              /\ yielded[j].turn = yielded[i].turn
              /\ yielded[j].item_id = yielded[i].item_id
    /\ \A i \in ToolCallEvents("final"), j \in ToolCallEvents("delta") :
          (yielded[i].turn = yielded[j].turn /\ yielded[i].item_id = yielded[j].item_id)
              => j < i
    /\ \A i \in ArgumentEvents : ~Announced(i) => YieldedFor(i) = {}

\* C20 (amended): every TOOL_CALL/DELTA and TOOL_CALL/FINAL event follows a
\* TOOL_CALL/NONE event of its turn for the same item id; a TOOL_CALL/DELTA of
\* an item follows the item's TOOL_CALL/FINAL only where the provider sent an
\* argument delta after the item's argument-done event; an argument event for
\* an item id that was not announced yields no TOOL_CALL event, and yields an
\* INTERNAL event exactly when include_internal_events is set.
C20_ToolCallEventsFollowProvider ==
    /\ \A i \in ToolCallEvents("delta") \cup ToolCallEvents("final") :
          \E j \in ToolCallEvents("none") :
              /\ j < i
              /\ yielded[j].turn = yielded[i].turn
              /\ yielded[j].item_id = yielded[i].item_id
    /\ \A i \in ToolCallEvents("final"), j \in ToolCallEvents("delta") :
          (/\ yielded[i].turn = yielded[j].turn
           /\ yielded[i].item_id = yielded[j].item_id
           /\ i < j)
              => \E a, b \in ArgumentEvents :
                    /\ a < b
                    /\ provided[a].turn = yielded[i].turn
                    /\ provided[b].turn = yielded[i].turn
                    /\ provided[a].item_id = yielded[i].item_id
                    /\ provided[b].item_id = yielded[i].item_id
                    /\ provided[a].type = "response.function_call_arguments.done"
                    /\ provided[b].type = "response.function_call_arguments.delta"
                    /\ provided[a].sequence_number = yielded[i].sequence_number
                    /\ provided[b].sequence_number = yielded[j].sequence_number
    /\ \A i \in ArgumentEvents :
          ~Announced(i) =>
              /\ \A j \in YieldedFor(i) : yielded[j].type = "internal"
              /\ Cardinality(YieldedFor(i))
                    = IF stream_input.include_internal_events THEN 1 ELSE 0

\* C20 witness: with include_internal_events set, the provider announces item
\* i1, sends a delta for the unannounced i9, then the delta and the done event
\* of i1.
C20_Witness ==
    /\ stream_input.include_internal_events
    /\ Len(provided) = 4
    /\ provided[1].type = "response.output_item.added" /\ provided[1].item_id = "i1"
    /\ provided[2].type = "response.function_call_arguments.delta"
    /\ provided[2].item_id = "i9"
    /\ provided[3].type = "response.function_call_arguments.delta"
    /\ provided[3].item_id = "i1"
    /\ provided[4].type = "response.function_call_arguments.done"
    /\ provided[4].item_id = "i1"
    /\ Len(yielded) = 7
    /\ ToolCallEvents("final") = {7}

\* The INTERNAL events yielded, in the order yielded.
Internals == SelectSeq(yielded, LAMBDA e : e.type = "internal")

\* C21: with include_internal_events set, Agent.stream yields for every
\* provider event one INTERNAL event whose raw_event is that event, in the
\* provider's order, and yields it before any other event made from the same
\* provider event; without the flag it yields no INTERNAL event.
C21_InternalPassthrough ==
    /\ stream_input.include_internal_events =>
          /\ [i \in DOMAIN Internals |-> Internals[i].raw_event] = provided
          /\ \A j \in DOMAIN yielded :
                yielded[j].type # "internal" =>
                    \E i \in 1..(j - 1) :
                        /\ yielded[i].type = "internal"
                        /\ yielded[i].raw_event = yielded[j].raw_event
    /\ ~stream_input.include_internal_events => Internals = <<>>

\* C21 witness: with the flag set, a turn of four provider events of which
\* three made a TOOL_CALL event each.
C21_Witness ==
    /\ stream_input.include_internal_events
    /\ Len(provided) = 4 /\ Len(Internals) = 4 /\ Len(yielded) = 7
    /\ yielded[1].type = "internal" /\ yielded[2].type = "tool_call"

\* The events of a streaming run by kind.
Opened == { i \in DOMAIN events :
              events[i].type = "response.function_call_output_item.added" }
Closed == { i \in DOMAIN events :
              events[i].type = "response.function_call_output_item.done" }
FromProvider == DOMAIN events \ (Opened \cup Closed)

\* C22: in run_stream and arun_stream every executed tool call lies between
\* an added event (in_progress, empty output) yielded before the tool runs and
\* a done event (completed, the tool's output) yielded after it, both with the
\* call's call_id; the done event follows its added event at once, so the
\* brackets of two calls never interleave; and the brackets of a turn follow
\* the turn's response.completed and precede the next response.created.
C22_ToolOutputBrackets ==
    IsStream(mode) =>
        /\ \A i \in Opened :
              /\ events[i].status = "in_progress" /\ events[i].output = NoText
              /\ IF i = Len(events)
                 THEN /\ pc \in {"run_tool", "add_tool_output"}
                      /\ events[i].call_id = tool_calls[tc].call_id
                 ELSE /\ (i + 1) \in Closed
                      /\ events[i + 1].call_id = events[i].call_id
        /\ \A i \in Closed :
              /\ events[i].status = "completed"
              /\ (i - 1) \in Opened
              /\ i = Len(events) => events[i].output = tool_output
              /\ \E k \in DOMAIN prompt :
                    /\ prompt[k].content_type = "tool_call_output"
                    /\ prompt[k].call_id = events[i].call_id
                    /\ prompt[k].output = events[i].output
        /\ Cardinality(Opened) = tool_runs + (IF pc = "run_tool" THEN 1 ELSE 0)
        /\ Cardinality(Closed) = tool_runs - (IF pc = "add_tool_output" THEN 1 ELSE 0)
        /\ \A i \in Opened \cup Closed :
              /\ \E j \in FromProvider :
                    /\ j < i /\ events[j].type = "response.completed"
                    /\ \A k \in FromProvider : ~(j < k /\ k < i)
              /\ \A j \in FromProvider :
                    (i < j /\ \A k \in FromProvider : ~(i < k /\ k < j))
                        => events[j].type = "response.created"

\* C22 witness: a streaming run executed two tool calls of one turn and then
\* called the model again.
C22_Witness ==
    /\ IsStream(mode) /\ model_calls = 2
    /\ \E i, j \in Closed : i < j /\ events[i].call_id # events[j].call_id
                               /\ \A k \in FromProvider : ~(i < k /\ k < j)
    /\ \E i \in Closed : events[i].output # NoText

\* The run through the blocking entry point and the one through the
\* cooperative entry point, whichever of the two `mode` is.
BlockingRun ==
    IF IsAsync(mode) THEN twin
    ELSE [prompt |-> prompt, tool_output |-> tool_output, all_items |-> all_items,
          events |-> events, result |-> result]
CooperativeRun ==
    IF IsAsync(mode) 
    THEN [prompt |-> prompt, tool_output |-> tool_output, all_items |-> all_items,
          events |-> events, result |-> result]
    ELSE twin
\* The call was of a registered tool that has a coroutine and no func.
CoroutineOnly(call_id) ==
    \E k \in DOMAIN prompt :
        /\ IsCall(prompt[k]) /\ prompt[k].call_id = call_id
        /\ Registered(prompt[k].name)
        /\ ~ToolNamed(prompt[k].name).func
        /\ ToolNamed(prompt[k].name).coroutine
\* Two sequences alike but for the places where Differ allows a difference.
AlikeBut(a, b, Differ(_, _)) ==
    /\ Len(a) = Len(b)
    /\ \A k \in DOMAIN a : a[k] # b[k] => Differ(a[k], b[k])

C24_ToolCallsWithinLimit == tool_runs <= agent.max_tool_calls

\* C25: an agent constructed with no tools sends requests that hold no
\* tools, tool_choice or parallel_tool_calls entry, and a response of text
\* alone is returned as the final output.
C25_NoToolsNoToolEntries ==
    (req_agent.tools.value = <<>> /\ req_pc # "ready") =>
        /\ DOMAIN request \cap {"tools", "tool_choice", "parallel_tool_calls"} = {}
        /\ req_pc = "returned" =>
              /\ req_result.returned
              /\ req_result.final_output = <<"a">>

\* C26: Tool.arun awaits the coroutine of a tool that has one, on the
\* event-loop thread, and does not call its func; it runs the func of a tool
\* that has no coroutine on a worker thread; when the arguments are refused
\* it runs neither.
C26_ArunDispatch ==
    tool_pc = "awaited" =>
        IF kwargs.raised # NoError THEN execution = NoExecution
        ELSE IF tool.coroutine
        THEN execution.callable = "coroutine" /\ execution.thread = "loop"
        ELSE /\ tool.func
             /\ execution.callable = "func"
             /\ execution.thread = "worker"
             /\ execution.thread # "loop"

\* C26 witness: a tool with a func and no coroutine was awaited with
\* arguments it accepts.
C26_Witness ==
    /\ tool_pc = "awaited" /\ kwargs.raised = NoError
    /\ tool.func /\ ~tool.coroutine
    /\ tool.args_schema # <<>>
    /\ execution.thread = "worker"

\* The required fields of a message's variant are there: role and text of a
\* text turn; name, argument text and call_id of a tool call; call_id and
\* output text of a tool output.
Complete(m) ==
    CASE m.content_type = "text" -> {"role", "text"} \subseteq DOMAIN m
      [] m.content_type = "tool_call" ->
            /\ {"name", "arguments", "call_id"} \subseteq DOMAIN m
            /\ m.name # "" /\ m.call_id # <<>>
      [] m.content_type = "tool_call_output" ->
            /\ {"call_id", "output"} \subseteq DOMAIN m
            /\ m.call_id # <<>>
      [] OTHER -> FALSE

C30_ExecutedAfterFinal ==
    \A k \in DOMAIN executed :
        \E i \in ToolCallEvents("final") :
            /\ yielded[i].turn = executed[k].turn
            /\ yielded[i].call_id = executed[k].call_id
            /\ yielded[i].arguments = executed[k].arguments

\* C28: in Agent.invoke a function call of the response never ends the run:
\* whatever the tool callable, the resolution of its arguments or the lookup
\* of its name raises, the error is caught, the call gets a tool output in
\* the conversation and the loop over the items goes on.
C28_ToolErrorsBecomeOutput ==
    [][(/\ invoke_pc = "items"
        /\ invoke_output # <<>>
        /\ Head(invoke_output).type = "function_call")
       => /\ invoke_pc' = "items"
          /\ invoke_error' = NoError
          /\ Len(invoke_prompt') = Len(invoke_prompt) + 2
          /\ invoke_prompt'[Len(invoke_prompt')].content_type = "function_call_output"
          /\ invoke_prompt'[Len(invoke_prompt')].call_id = Head(invoke_output).call_id]_vars

\* C29: every turn of Agent.invoke ends in one of three ways: with a tool
\* call, the loop goes to its next pass (another model call, or the budget
\* error); with no tool call and a message, that message's text is returned;
\* with neither, RuntimeError is raised at once, no model call being made.
C29_ThreeOutcomes ==
    [][(invoke_pc = "items" /\ invoke_pc' # "items")
       => IF invoke_tool_called'
          THEN invoke_pc' = "chat" /\ invoke_error' = NoError
          ELSE IF invoke_final'.given
          THEN /\ invoke_pc' = "done"
               /\ invoke_result' = [returned |-> TRUE, value |-> invoke_final'.value]
          ELSE /\ invoke_pc' = "raised"
               /\ invoke_error' = "RuntimeError"
               /\ invoke_iteration' = invoke_iteration]_vars

C32_RunTerminates ==
    /\ [](model_calls <= agent.max_iterations)
    /\ <>(pc \in {"invalid", "returned", "raised"})

\* C32 witness: a streaming run has ended on the budget error after its
\* model was called max_iterations times, more than once, each turn with a
\* tool call that was executed.
C32_Witness ==
    /\ IsStream(mode)
    /\ pc = "raised" /\ error = BudgetError
    /\ model_calls = agent.max_iterations /\ model_calls > 1
    /\ tool_runs >= model_calls

\* The own tool-call records that name no tool of the registry, and those of
\* them that are answered.
UnknownCalls == { i \in Own : IsCall(prompt[i]) /\ ~Registered(prompt[i].name) }
AnsweredUnknown == { i \in UnknownCalls : i < Len(prompt) }

\* C33 (as stated): in Runner.run a call of an unknown tool does not fail the
\* run: the text "Error: Tool '<name>' not found" is appended as the call's
\* output, and the loop goes on to the next model call, so that a run that
\* has ended has not raised and has called the model again after the turn.
C33_NextModelCallAfterNotFound ==
    mode = "run" =>
       /\ \A i \in AnsweredUnknown :
             /\ IsOutput(prompt[i + 1])
             /\ prompt[i + 1].call_id = prompt[i].call_id
             /\ prompt[i + 1].output = NotFoundText(prompt[i].name)
       /\ Ended => \A i \in AnsweredUnknown :
             /\ pc # "raised"
             /\ model_calls > Turn(prompt[i].call_id)

\* C33 (amended): in Runner.run a call of an unknown tool raises nothing of
\* its own: its record is followed at once by a tool-output message with the
\* same call_id and the text "Error: Tool '<name>' not found", and the loop
\* goes on, to the next model call or, when the turn was the last permitted
\* one, to the 'exceeded max iterations' error.
C33_NotFoundContained ==
    mode = "run" =>
       /\ \A i \in UnknownCalls :
             IF i = Len(prompt)
             THEN /\ pc \in {"run_tool", "add_tool_output"}
                  /\ pc = "add_tool_output" =>
                        tool_output = NotFoundText(prompt[i].name)
             ELSE /\ IsOutput(prompt[i + 1])
                  /\ prompt[i + 1].call_id = prompt[i].call_id
                  /\ prompt[i + 1].output = NotFoundText(prompt[i].name)
       /\ (AnsweredUnknown # {} /\ pc = "raised") =>
             /\ error = BudgetError
             /\ model_calls = agent.max_iterations
       /\ Ended => \A i \in AnsweredUnknown :
             \/ model_calls > Turn(prompt[i].call_id)
             \/ error = BudgetError /\ Turn(prompt[i].call_id) = agent.max_iterations

\* C33 witness: Runner.run was asked for the unknown tool in its first turn,
\* answered it, called the model again and returned.
C33_Witness ==
    /\ mode = "run" /\ pc = "returned"
    /\ \E i \in AnsweredUnknown :
          /\ Turn(prompt[i].call_id) = 1
          /\ model_calls > 1
          /\ prompt[i + 1].output = NotFoundText(prompt[i].name)

CreatedUpTo(i) ==
    { j \in FromProvider : j <= i /\ events[j].type = "response.created" }
\* The last provider event a streaming run has consumed.
LastFromProvider == CHOOSE j \in FromProvider : \A k \in FromProvider : k <= j

\* C35: in Runner.run_stream (and arun_stream) and in Agent.stream the tools
\* of a turn start only after the turn's provider event stream was consumed
\* to its end, no provider event of the turn being consumed afterwards, and
\* every event that derives from turn k is yielded before the model call of
\* turn k+1: the events come in the order of their turns and a model call
\* finds all earlier turns' events yielded.
C35_ToolsAfterStreamEventsBeforeNextCall ==
    /\ [](/\ IsStream(mode) =>
                \A i \in Opened \cup Closed :
                    Cardinality(CreatedUpTo(i)) = Turn(events[i].call_id)
          /\ \A i, j \in DOMAIN yielded :
                i < j => yielded[i].raw_event.turn <= yielded[j].raw_event.turn
          /\ \A i \in DOMAIN yielded : yielded[i].raw_event.turn <= stream_iteration
          /\ \A k \in DOMAIN executed : executed[k].turn <= stream_iteration)
    /\ [][/\ (IsStream(mode) /\ tool_runs' # tool_runs) =>
                /\ events[LastFromProvider].type = "response.completed"
                /\ Cardinality(CreatedUpTo(Len(events))) = model_calls
                /\ \A j \in DOMAIN events' : j > Len(events) => j \notin FromProvider'
          /\ (IsStream(mode) /\ model_calls' # model_calls) =>
                /\ tool_runs' = tool_runs
                /\ \A i \in Opened \cup Closed : Turn(events[i].call_id) <= model_calls
                /\ IsPrefix(events, events')
          /\ executed' # executed =>
                /\ provided' = provided /\ yielded' = yielded
                /\ stream_pc = "events" /\ stream_pc' \in {"chat", "raised"}
                /\ \A k \in DOMAIN executed' :
                      k > Len(executed) => executed'[k].turn = stream_iteration
          /\ provided' # provided =>
                /\ executed' = executed
                /\ \A k \in DOMAIN executed : executed[k].turn < stream_iteration
          /\ stream_iteration' # stream_iteration =>
                /\ yielded' = yielded
                /\ \A i \in DOMAIN yielded :
                      yielded[i].raw_event.turn < stream_iteration']_vars

\* C35 witness: run_stream has executed a tool of its first turn and is in
\* its second model call's turn, or Agent.stream has executed a tool of its
\* first turn and has yielded an event of its second turn.
C35_Witness ==
    \/ /\ mode = "run_stream" /\ model_calls = 2 /\ tool_runs >= 1
       /\ Opened # {} /\ pc = "add_tool_call"
    \/ /\ stream_iteration = 2 /\ executed # <<>>
       /\ \E i \in DOMAIN yielded : yielded[i].raw_event.turn = 2

\* The function calls of the last model response of Runner.run, and the
\* records of Agent.invoke's conversation.
Requested == { i \in DOMAIN response : response[i].type = "function_call" }
InvokeCalls == { i \in DOMAIN invoke_prompt :
                   invoke_prompt[i].content_type = "function_call" }

\* C36: when Runner.run or Agent.invoke ends with the 'exceeded max
\* iterations' error, every tool call requested in the last permitted turn
\* has been executed and answered: each has its record in the conversation,
\* every record is followed at once by the output with its call_id, and
\* nothing of the last response is left unhandled.
C36_BudgetErrorAfterOutputs ==
    /\ (mode = "run" /\ pc = "raised" /\ error = BudgetError) =>
          /\ \A i \in Requested :
                \E k \in OwnCalls : prompt[k].call_id = response[i].call_id
          /\ \A k \in OwnCalls :
                /\ k < Len(prompt)
                /\ IsOutput(prompt[k + 1])
                /\ prompt[k + 1].call_id = prompt[k].call_id
          /\ tool_runs = Count(OwnCalls)
    /\ (invoke_pc = "raised" /\ invoke_error = BudgetError) =>
          /\ invoke_output = <<>>
          /\ \A k \in InvokeCalls :
                /\ k < Len(invoke_prompt)
                /\ invoke_prompt[k + 1].content_type = "function_call_output"
                /\ invoke_prompt[k + 1].call_id = invoke_prompt[k].call_id

\* C36 witness: Runner.run has raised the budget error after a last turn
\* with two tool calls, or Agent.invoke has after a last turn with two.
C36_Witness ==
    \/ /\ mode = "run" /\ pc = "raised" /\ error = BudgetError
       /\ Cardinality(Requested) = 2 /\ tool_runs >= 2
    \/ /\ invoke_pc = "raised" /\ invoke_error = BudgetError
       /\ Cardinality(InvokeCalls) >= 2

\* C37: every tool whose schema a request of an agent's run holds is in the
\* agent's registry, so the call of a tool the model was offered is never
\* answered with the "Tool not found" text.
C37_OfferedToolsRegistered ==
    /\ (req_pc # "ready" /\ "tools" \in DOMAIN request) =>
          \A i \in DOMAIN request.tools :
              request.tools[i].name \in DOMAIN RequestRegistry
    /\ req_pc = "called" => req_tool_output # NotFoundText(req_call.name)

\* The tool-call items and the tool-call-output items of the returned trace.
CallItems == { i \in DOMAIN result.new_items :
                 result.new_items[i].type = "tool_call_item" }
OutputItems == { i \in DOMAIN result.new_items :
                   result.new_items[i].type = "tool_call_output_item" }

\* C38: in the RunResult returned by Runner.run every tool-call item of
\* new_items is followed by a tool-call-output item with its call_id, and
\* new_items holds as many tool-call-output items as tool-call items.
C38_TraceOutputsMatchCalls ==
    (mode = "run" /\ pc = "returned") =>
        /\ result.returned
        /\ \A i \in CallItems :
              \E j \in OutputItems :
                  /\ i < j
                  /\ result.new_items[j].call_id = result.new_items[i].call_id
        /\ Cardinality(OutputItems) = Cardinality(CallItems)

\* C38 witness: Runner.run returned after a turn with two tool calls.
C38_Witness ==
    /\ mode = "run" /\ pc = "returned"
    /\ \E i, j \in CallItems :
          /\ i < j
          /\ Turn(result.new_items[i].call_id) = Turn(result.new_items[j].call_id)
          /\ \A k \in OutputItems : j < k
    /\ Cardinality(OutputItems) >= 2

\* C39: given the same output items in every turn, Runner.run_stream appends
\* to the conversation the messages Runner.run appends, in the same order:
\* at all times the conversation of the one equals the conversation of the
\* other, the assistant text of a turn with several message items and tool
\* calls included.
C39_StreamAppendsAsRun ==
    mode \in {"run", "run_stream"} => mirror = prompt

====
